---- MODULE Spec2Model ----
(***************************************************************************)
(* Connection-pool core of pgcat (src/src/pool.rs): the ban manager and    *)
(* the checkout algorithm of ConnectionPool, pause/resume, the in-flight   *)
(* query map and the pool registry with hot reload.                        *)
(*                                                                         *)
(* Each concern has its own specification over the shared variables:       *)
(*   Spec          ConnectionPool::get / ban / unban / try_unban           *)
(***************************************************************************)
EXTENDS Integers, Sequences, FiniteSets, TLC

\* ------------------------------------------------------------------------
\* Bounds of the model
\* ------------------------------------------------------------------------

\* The wall clock (seconds) stops advancing here.
MaxTime == 3

\* Largest age (ms) of a session's last_activity drawn at checkout.
MaxElapsed == 2

\* Most connections, and most idle connections, bb8 reports of an endpoint pool.
MaxConnections == 1

\* ------------------------------------------------------------------------
\* Configuration the pool is built from
\* ------------------------------------------------------------------------

\* settings.ban_time (seconds)
BanTime == 1

\* settings.healthcheck_delay (ms)
HealthcheckDelay == 1

\* pool_config.shards[..].servers: the roles of the servers of each shard.
Topology == << <<"Primary", "Replica", "Replica">> >>

\* Durations an administrator bans with: one below and one above ban_time.
AdminDurations == {0, 2}

\* The caller whose call is followed step by step. Every other caller acts
\* on the banlist through ban and unban, which are single critical sections
\* and can fall between any two steps of this one.
Tasks == {"t1"}

Role == {"Primary", "Replica"}

\* enum BanReason; duration is 0 for every reason but AdminBan(duration).
BanReason ==
    [kind : {"FailedHealthCheck", "MessageSendFailed", "MessageReceiveFailed",
             "FailedCheckout", "StatementTimeout"}, duration : {0}]
    \cup [kind : {"AdminBan"}, duration : AdminDurations]

Reason(k) == [kind |-> k, duration |-> 0]

AdminBan(d) == [kind |-> "AdminBan", duration |-> d]

\* The reasons the callers outside get() ban with.
CallerReasons == {Reason("MessageSendFailed")} \cup {AdminBan(d) : d \in AdminDurations}

\* ------------------------------------------------------------------------
\* Topology built by from_config
\* ------------------------------------------------------------------------

Shards == 0 .. (Len(Topology) - 1)

Servers(s) == 0 .. (Len(Topology[s + 1]) - 1)

\* replica_number counts the replicas before the server within its shard.
ReplicaNumber(s, i) == Cardinality({j \in 0 .. (i - 1) : Topology[s + 1][j + 1] = "Replica"})

MakeAddress(s, i) ==
    [shard |-> s, address_index |-> i, role |-> Topology[s + 1][i + 1],
     replica_number |-> ReplicaNumber(s, i)]

addresses == [s \in Shards |-> [i \in Servers(s) |-> MakeAddress(s, i)]]

\* databases[shard][server]: the endpoint pool pushed along with the address
\* of the server, known by the place it stands at.
databases == [s \in Shards |-> [i \in Servers(s) |-> [shard |-> s, server |-> i]]]

NoConn == [shard |-> 0 - 1, server |-> 0 - 1]

\* The endpoint pools, one for every server of every shard; validate()
\* spawns a task for each.
Endpoints == UNION {{databases[s][i] : i \in Servers(s)} : s \in Shards}

\* settings.shards: shard_ids.len()
settings_shards == Len(Topology)

AllAddresses == UNION {{addresses[s][i] : i \in Servers(s)} : s \in Shards}

NoAddress == [shard |-> 0 - 1, address_index |-> 0 - 1, role |-> "None", replica_number |-> 0 - 1]

VARIABLES
    \* ConnectionPool: ban manager and checkout
    now,                  \* wall clock, seconds
    banlist,              \* banlist[shard]: Address -> (BanReason, timestamp)
    load_balancing_mode,  \* settings.load_balancing_mode
    states,               \* what bb8 reports of each endpoint pool
    backends,             \* what each backend does to a checkout and to a health check
    started,              \* the shard's banlist as the call that runs alone found it
    tasks,                \* the asynchronous callers and where each stands
    \* InFlightQueryHashMap
    map,                     \* normalized query -> hit counter
    log_normalized_queries,  \* the configuration flag of the same name
    duplicates,              \* per key, the admitted inserts that found it present
    last,                    \* the last call on the map and what it returned
    inserters,               \* the callers of insert_into_cache and where each stands
    \* ConnectionPool: pause and resume
    paused,                \* the AtomicBool
    notify_waiters_calls,  \* paused_waiter: how often notify_waiters has run
    resume_pc,             \* where the caller of resume() stands
    waiters,               \* the callers of wait_paused() and where each stands
    \* The registry and its reload
    config,      \* the configuration: pool name -> hash_value() of its section, 0 for none
    POOLS,       \* the published mapping PoolIdentifier -> ConnectionPool
    prev_POOLS,  \* the mapping the last reload replaced
    heap,        \* what the Arc fields of the ConnectionPool values point to
    reload,      \* the caller of from_config and where it stands
    held,        \* the ConnectionPool each client got from get_pool
    \* ConnectionPool: validation
    validated,   \* the AtomicBool
    validation,  \* the callers of validate() and where each stands
    original_server_parameters,  \* the RwLock: who holds its write guard, and the value
    last_finished,  \* the endpoint of the task that last wrote the parameters and ended
    \* from_config: the shards of a pool
    shards_config,  \* pool_config.shards: shard key -> the roles of its servers
    built           \* databases, addresses and banlist of the pool built from it

poolVars == <<now, banlist, load_balancing_mode, states, backends, started, tasks>>

inflightVars == <<map, log_normalized_queries, duplicates, last, inserters>>

pauseVars == <<paused, notify_waiters_calls, resume_pc, waiters>>

registryVars == <<config, POOLS, prev_POOLS, heap, reload, held>>

validateVars == <<validated, validation, original_server_parameters, last_finished>>

buildVars == <<shards_config, built>>

vars == <<poolVars, inflightVars, pauseVars, registryVars, validateVars, buildVars>>

\* What the calls on one component leave alone.
notPool == <<inflightVars, pauseVars, registryVars, validateVars, buildVars>>

notInFlight == <<poolVars, pauseVars, registryVars, validateVars, buildVars>>

notPause == <<poolVars, inflightVars, registryVars, validateVars, buildVars>>

notRegistry == <<poolVars, inflightVars, pauseVars, validateVars, buildVars>>

notValidate == <<poolVars, inflightVars, pauseVars, registryVars, buildVars>>

notBuild == <<poolVars, inflightVars, pauseVars, registryVars, validateVars>>

\* ------------------------------------------------------------------------
\* Helpers
\* ------------------------------------------------------------------------

EmptyMap == [x \in {} |-> 0]

MapInsert(m, k, v) == [x \in (DOMAIN m) \cup {k} |-> IF x = k THEN v ELSE m[x]]

MapRemove(m, k) == [x \in (DOMAIN m) \ {k} |-> m[x]]

\* Every order a shuffle can leave the elements of a set in.
Shuffles(S) ==
    {p \in [1 .. Cardinality(S) -> S] : \A i, j \in 1 .. Cardinality(S) : i # j => p[i] # p[j]}

NoReason == [kind |-> "None", duration |-> 0]

NoEntry == [reason |-> NoReason, age |-> 0 - 1]

\* A caller that is not inside any call.
IdleTask ==
    [op |-> "none", pc |-> "idle", shard |-> 0 - 1, role |-> "None",
     candidates |-> <<>>, address |-> NoAddress, force_healthcheck |-> FALSE,
     result |-> "none", client_stats |-> "idle", conn |-> NoConn, bad |-> FALSE,
     \* what happened to the current candidate, kept for the properties
     was_banned |-> FALSE, unban |-> "none", seen |-> NoEntry, cleared_admin |-> FALSE,
     checkout |-> "none", elapsed |-> 0 - 1, health_check |-> "none",
     \* the candidates the call is through with, and how each one ended
     tried |-> <<>>]

\* ------------------------------------------------------------------------
\* Ban manager: ConnectionPool::is_banned / unban / ban / try_unban
\* ------------------------------------------------------------------------

is_banned(address) == address \in DOMAIN banlist[address.shard]

\* unban: one write critical section, removal is unconditional.
unban(address) ==
    /\ banlist' = [banlist EXCEPT ![address.shard] = MapRemove(@, address)]
    /\ UNCHANGED <<now, load_balancing_mode, states, backends, started, tasks, notPool>>

\* The record r with the fields of upd replaced.
Merge(r, upd) == [f \in DOMAIN r |-> IF f \in DOMAIN upd THEN upd[f] ELSE r[f]]

SetTask(t, upd) == tasks' = [tasks EXCEPT ![t] = Merge(@, upd)]

\* ban() without its early return for a Primary.
bannable_any(address) == TRUE

\* "Primary can never be banned": the early return of ban().
bannable(address) == address.role # "Primary"

\* The timestamp of a ban is read before the write lock is taken, so by
\* the time the entry is written the clock may have moved on.
ban_timestamps == {n \in {now - 1, now} : n >= 0}

\* The banlist is left as it was.
ban_insert_nothing(bans, address, reason, timestamp) == bans

\* An address that has an entry keeps the reason of it, the time is
\* written anew.
ban_insert_first_reason(bans, address, reason, timestamp) ==
    IF address.role = "Primary"
    THEN bans
    ELSE [bans EXCEPT ![address.shard] =
             MapInsert(@, address,
                 [reason |-> IF address \in DOMAIN @ THEN @[address].reason ELSE reason,
                  timestamp |-> timestamp])]

\* ban(): nothing for a Primary; otherwise the entry of the address is
\* written, replacing any entry it had.
ban_insert(bans, address, reason, timestamp) ==
    IF bannable(address)
    THEN [bans EXCEPT ![address.shard] =
             MapInsert(@, address, [reason |-> reason, timestamp |-> timestamp])]
    ELSE bans

\* A caller outside get() bans an address.
ban(address, reason) ==
    /\ \E timestamp \in ban_timestamps : banlist' = ban_insert(banlist, address, reason, timestamp)
    /\ UNCHANGED <<now, load_balancing_mode, states, backends, started, tasks, notPool>>

\* The servers of the shard counted whatever their role.
servers_available(shard) == Cardinality(Servers(shard))

\* try_unban: the number of replicas of the shard.
replicas_available(shard) ==
    Cardinality({i \in Servers(shard) : addresses[shard][i].role = "Replica"})

\* try_unban: the first read of the banlist.
all_replicas_banned(shard) ==
    Cardinality(DOMAIN banlist[shard]) = replicas_available(shard)

\* The threshold compared with >= where the code compares with >.
exceeded_ban_time_inclusive(entry, n) ==
    IF entry.reason.kind = "AdminBan"
    THEN n - entry.timestamp > entry.reason.duration
    ELSE n - entry.timestamp >= BanTime

\* Every reason, AdminBan included, held against ban_time.
exceeded_ban_time_any_reason(entry, n) == n - entry.timestamp > BanTime

\* try_unban: the age of a ban against its threshold, AdminBan carries its own.
exceeded_ban_time(entry, n) ==
    IF entry.reason.kind = "AdminBan"
    THEN n - entry.timestamp > entry.reason.duration
    ELSE n - entry.timestamp > BanTime

\* What try_unban answered, from how it ended.
answer(how) == IF how = "none" THEN "none" ELSE IF how = "banned" THEN "false" ELSE "true"

\* The candidate at hand ended this way.
Tried(tk, outcome) == Append(tk.tried, [address |-> tk.address, outcome |-> outcome])

\* What the caller of try_unban does with its answer.
try_unban_return(tk, how) ==
    IF tk.op = "get"
    THEN IF answer(how) = "true"
         THEN Merge(tk, [pc |-> "checkout", force_healthcheck |-> TRUE, unban |-> how])
         ELSE Merge(tk, [pc |-> "pop", unban |-> how, tried |-> Tried(tk, "skipped")])
    ELSE Merge(tk, [pc |-> "done", unban |-> how, result |-> answer(how)])

\* A caller outside get() calls try_unban.
try_unban(t, address) ==
    /\ tasks[t].pc = "idle"
    /\ SetTask(t, [op |-> "try_unban", pc |-> "try_unban", address |-> address,
                   was_banned |-> is_banned(address)])
    /\ UNCHANGED <<now, banlist, load_balancing_mode, states, backends, started, notPool>>

\* try_unban, first critical section: a Primary answers true, otherwise
\* the size of the shard's banlist is compared with the replica count.
try_unban_read_all(t) ==
    /\ tasks[t].pc = "try_unban"
    /\ LET address == tasks[t].address
       IN  tasks' = [tasks EXCEPT ![t] =
               IF address.role = "Primary" THEN try_unban_return(@, "primary")
               ELSE IF all_replicas_banned(address.shard) THEN Merge(@, [pc |-> "unban_all"])
               ELSE Merge(@, [pc |-> "check_ban_time"])]
    /\ UNCHANGED <<now, banlist, load_balancing_mode, states, backends, started, notPool>>

\* An AdminBan that has not yet lasted its duration.
unexpired_admin(entry) ==
    entry.reason.kind = "AdminBan" /\ now - entry.timestamp <= entry.reason.duration

\* The shard's map is taken out of the banlist.
clear_away(bans, shard) == MapRemove(bans, shard)

\* try_unban: write_guard[address.shard].clear()
clear(bans, shard) == [bans EXCEPT ![shard] = EmptyMap]

\* try_unban, "Unbanning all replicas": the shard's banlist is cleared.
try_unban_clear(t) ==
    /\ tasks[t].pc = "unban_all"
    /\ LET bans == banlist[tasks[t].address.shard]
       IN  tasks' = [tasks EXCEPT ![t] =
               try_unban_return(
                   Merge(@, [cleared_admin |-> \E a \in DOMAIN bans : unexpired_admin(bans[a])]),
                   "all_banned")]
    /\ banlist' = clear(banlist, tasks[t].address.shard)
    /\ UNCHANGED <<now, load_balancing_mode, states, backends, started, notPool>>

\* try_unban, second read: no entry answers true, an entry within its
\* threshold answers false, an expired one goes on to be removed.
try_unban_read_entry(t) ==
    /\ tasks[t].pc = "check_ban_time"
    /\ LET address == tasks[t].address
           bans == banlist[address.shard]
       IN  IF address \notin DOMAIN bans
           THEN tasks' = [tasks EXCEPT ![t] = try_unban_return(@, "no_entry")]
           ELSE LET tk == Merge(tasks[t], [seen |-> [reason |-> bans[address].reason,
                                                      age |-> now - bans[address].timestamp]])
                IN  tasks' = [tasks EXCEPT ![t] =
                        IF exceeded_ban_time(bans[address], now)
                        THEN Merge(tk, [pc |-> "unban_expired"])
                        ELSE try_unban_return(tk, "banned")]
    /\ UNCHANGED <<now, banlist, load_balancing_mode, states, backends, started, notPool>>

\* try_unban, last critical section: the entry of the address is removed.
try_unban_remove(t) ==
    /\ tasks[t].pc = "unban_expired"
    /\ banlist' = [banlist EXCEPT ![tasks[t].address.shard] = MapRemove(@, tasks[t].address)]
    /\ tasks' = [tasks EXCEPT ![t] = try_unban_return(@, "expired")]
    /\ UNCHANGED <<now, load_balancing_mode, states, backends, started, notPool>>

\* ------------------------------------------------------------------------
\* Checkout: ConnectionPool::get and run_health_check
\* ------------------------------------------------------------------------

\* enum LoadBalancingMode
LoadBalancingMode == {"Random", "LeastOutstandingConnections"}

\* bb8::State: the counters of an endpoint pool. busy_connection_count
\* reckons with idle_connections above connections, so either can be any.
State == [connections : 0 .. MaxConnections, idle_connections : 0 .. MaxConnections]

\* pool_state: "as reported by bb8".
pool_state(shard, server) == states[databases[shard][server]]

\* Sessions are checked out of an endpoint pool and given back, opened and
\* closed, by callers all over the program: bb8 reports other counters.
state_change(e, state) ==
    /\ states[e] # state
    /\ states' = [states EXCEPT ![e] = state]
    /\ UNCHANGED <<now, banlist, load_balancing_mode, backends, started, tasks, notPool>>

busy_connection_count(address) ==
    LET state == pool_state(address.shard, address.address_index)
        idle == state.idle_connections
        provisioned == state.connections
    IN  IF idle > provisioned THEN 0 ELSE provisioned - idle

\* The comparison the other way round: the less busy one first.
by_busy_ascending(a, b) == busy_connection_count(a) <= busy_connection_count(b)

\* |a, b| busy_connection_count(b).partial_cmp(busy_connection_count(a)):
\* a does not sort after b when it is at least as busy.
by_busy_descending(a, b) == busy_connection_count(a) >= busy_connection_count(b)

\* sort_by is stable: x goes behind every element that does not sort after it.
RECURSIVE InsertByBusy(_, _)
InsertByBusy(sorted, x) ==
    IF sorted = <<>> THEN <<x>>
    ELSE IF by_busy_descending(sorted[Len(sorted)], x)
         THEN Append(sorted, x)
         ELSE Append(InsertByBusy(SubSeq(sorted, 1, Len(sorted) - 1), x), sorted[Len(sorted)])

\* candidates.sort_by(|a, b| busy(b).partial_cmp(busy(a))): descending busy count.
RECURSIVE SortByBusy(_)
SortByBusy(seq) ==
    IF seq = <<>> THEN <<>>
    ELSE InsertByBusy(SortByBusy(SubSeq(seq, 1, Len(seq) - 1)), seq[Len(seq)])

\* The delay compared with >= where the code compares with >.
require_healthcheck_inclusive(force_healthcheck, elapsed) ==
    force_healthcheck \/ elapsed >= HealthcheckDelay

\* A health check is due by the age of the session alone.
require_healthcheck_unforced(force_healthcheck, elapsed) == elapsed > HealthcheckDelay

\* "Do not issue a health check unless it's been a little while".
require_healthcheck(force_healthcheck, elapsed) ==
    force_healthcheck \/ elapsed > HealthcheckDelay

\* get(): the addresses of the shard whose role is the one asked for.
Candidates(shard, role) ==
    {addresses[shard][i] : i \in {j \in Servers(shard) : addresses[shard][j].role = role}}

\* get(): the shuffled candidates are sorted under
\* LeastOutstandingConnections and left as shuffled otherwise.
sort_by(shuffled) ==
    IF load_balancing_mode = "LeastOutstandingConnections"
    THEN SortByBusy(shuffled) ELSE shuffled

\* get(): the candidates of the role, shuffled, sorted under
\* LeastOutstandingConnections; the client is marked waiting.
get_candidates(t, shard, role) ==
    /\ tasks[t].pc = "idle"
    /\ \E shuffled \in Shuffles(Candidates(shard, role)) :
          SetTask(t, [op |-> "get", pc |-> "pop", shard |-> shard, role |-> role,
                      candidates |-> sort_by(shuffled), client_stats |-> "waiting"])

\* A caller among others calls get().
get(t, shard, role) ==
    /\ get_candidates(t, shard, role)
    /\ UNCHANGED <<now, banlist, load_balancing_mode, states, backends, started, notPool>>

\* No call is under way.
Quiet == \A t \in Tasks : tasks[t].pc = "idle"

\* A caller calls get() with nothing else going on until it returns; what
\* the shard's banlist held at that moment is kept.
get_alone(t, shard, role) ==
    /\ get_candidates(t, shard, role)
    /\ started' = [started EXCEPT ![t] = banlist[shard]]
    /\ UNCHANGED <<now, banlist, load_balancing_mode, states, backends, notPool>>

\* The loop ends with one candidate left.
is_empty_but_one(candidates) == Len(candidates) <= 1

\* get(): candidates.is_empty()
is_empty(candidates) == Len(candidates) = 0

\* get(): the head of the loop. No candidate left ends the call with
\* AllServersDown; otherwise the last candidate is popped and looked up in
\* the banlist.
get_pop(t) ==
    /\ tasks[t].pc = "pop"
    /\ LET tk == tasks[t]
           n == Len(tk.candidates)
       IN  IF is_empty(tk.candidates)
           THEN SetTask(t, [pc |-> "done", result |-> "AllServersDown",
                            client_stats |-> "idle", address |-> NoAddress])
           ELSE LET address == tk.candidates[n]
                IN  SetTask(t, [candidates |-> SubSeq(tk.candidates, 1, n - 1),
                                address |-> address, force_healthcheck |-> FALSE,
                                was_banned |-> is_banned(address), unban |-> "none",
                                seen |-> NoEntry, cleared_admin |-> FALSE,
                                checkout |-> "none", elapsed |-> 0 - 1,
                                health_check |-> "none", bad |-> FALSE,
                                pc |-> IF is_banned(address) THEN "try_unban" ELSE "checkout"])
    /\ UNCHANGED <<now, banlist, load_balancing_mode, states, backends, started, notPool>>

\* What a backend does: it refuses connections, or takes them and fails
\* the health check, or takes them and passes it; one that is flapping
\* does now this and now that.
Backend == {"unreachable", "failing", "healthy"}

\* The endpoint pool found by the replica number of the address.
checked_out_from_replica_number(address) == databases[address.shard][address.replica_number]

\* get(): self.databases[address.shard][address.address_index]
checked_out_from(address) == databases[address.shard][address.address_index]

\* get(): the endpoint pool fails to hand out a connection; the address is
\* banned, the client marked idle and the next candidate tried.
get_checkout_error(t) ==
    /\ tasks[t].pc = "checkout"
    /\ backends[tasks[t].address] \in {"flapping", "unreachable"}
    /\ \E timestamp \in ban_timestamps :
          banlist' = ban_insert(banlist, tasks[t].address, Reason("FailedCheckout"), timestamp)
    /\ SetTask(t, [checkout |-> "error", pc |-> "pop", client_stats |-> "idle",
                   seen |-> NoEntry, cleared_admin |-> FALSE,
                   tried |-> Tried(tasks[t], "checkout_error")])
    /\ UNCHANGED <<now, load_balancing_mode, states, backends, started, notPool>>

\* The client is left in the state it was in.
active_unmarked(client_stats) == client_stats

\* client_stats.active()
active(client_stats) == "active"

\* get(): the endpoint pool hands out a session whose last activity is
\* elapsed ms old; it is returned as it is unless a health check is due.
get_checkout_ok(t) ==
    /\ tasks[t].pc = "checkout"
    /\ backends[tasks[t].address] \in {"flapping", "failing", "healthy"}
    /\ \E elapsed \in 0 .. MaxElapsed :
          IF require_healthcheck(tasks[t].force_healthcheck, elapsed)
          THEN SetTask(t, [checkout |-> "ok", conn |-> checked_out_from(tasks[t].address), elapsed |-> elapsed,
                           pc |-> "health_check", seen |-> NoEntry, cleared_admin |-> FALSE])
          ELSE SetTask(t, [checkout |-> "ok", conn |-> checked_out_from(tasks[t].address), elapsed |-> elapsed,
                           pc |-> "done", result |-> "Ok", client_stats |-> active(tasks[t].client_stats),
                           seen |-> NoEntry, cleared_admin |-> FALSE,
                           tried |-> Tried(tasks[t], "returned")])
    /\ UNCHANGED <<now, banlist, load_balancing_mode, states, backends, started, notPool>>

\* run_health_check: the query ";" answers in time and get() returns.
run_health_check_ok(t) ==
    /\ tasks[t].pc = "health_check"
    /\ backends[tasks[t].address] \in {"flapping", "healthy"}
    /\ SetTask(t, [health_check |-> "passed", pc |-> "done", result |-> "Ok",
                   client_stats |-> active(tasks[t].client_stats), tried |-> Tried(tasks[t], "returned")])
    /\ UNCHANGED <<now, banlist, load_balancing_mode, states, backends, started, notPool>>

\* The session is left as it is.
mark_bad_not(bad) == bad

\* Server::mark_bad: "Don't leave a bad connection in the pool."
mark_bad(bad) == TRUE

\* run_health_check: the query fails or does not answer within
\* healthcheck_timeout; the session is marked bad, the address banned, and
\* get() drops the session and goes on.
run_health_check_failed(t) ==
    /\ tasks[t].pc = "health_check"
    /\ backends[tasks[t].address] \in {"flapping", "failing"}
    /\ \E timestamp \in ban_timestamps :
          banlist' = ban_insert(banlist, tasks[t].address, Reason("FailedHealthCheck"), timestamp)
    /\ \E how \in {"failed", "timed_out"} :
          SetTask(t, [health_check |-> how, bad |-> mark_bad(tasks[t].bad), conn |-> NoConn,
                      pc |-> "pop", tried |-> Tried(tasks[t], "health_check_failed")])
    /\ UNCHANGED <<now, load_balancing_mode, states, backends, started, notPool>>

\* get() from the head of its loop to its return when nothing else acts
\* meanwhile: what the call returns, given the candidates still to pop,
\* the banlist and, for each candidate, the age of the session its
\* endpoint pool hands out. Every backend does one thing only.
RECURSIVE get_returns(_, _, _)
get_returns(candidates, bans, last_activity) ==
    IF is_empty(candidates) THEN "AllServersDown"
    ELSE LET address == candidates[Len(candidates)]
             rest == SubSeq(candidates, 1, Len(candidates) - 1)
             entries == bans[address.shard]
             banned == address \in DOMAIN entries
             all_banned == Cardinality(DOMAIN entries) = replicas_available(address.shard)
             kept == /\ banned
                     /\ address.role # "Primary"
                     /\ ~all_banned
                     /\ ~exceeded_ban_time(entries[address], now)
             unbanned == IF ~banned \/ address.role = "Primary" THEN bans
                         ELSE IF all_banned THEN clear(bans, address.shard)
                         ELSE [bans EXCEPT ![address.shard] = MapRemove(@, address)]
         IN  IF kept THEN get_returns(rest, bans, last_activity)
             ELSE IF backends[address] = "unreachable"
             THEN get_returns(rest, ban_insert(unbanned, address, Reason("FailedCheckout"), now),
                              last_activity)
             ELSE IF ~require_healthcheck(banned, last_activity[address]) THEN "Ok"
             ELSE IF backends[address] = "healthy" THEN "Ok"
             ELSE get_returns(rest, ban_insert(unbanned, address, Reason("FailedHealthCheck"), now),
                              last_activity)

\* The caller is done with the call and with the connection it got.
task_return(t) ==
    /\ tasks[t].pc = "done"
    /\ tasks' = [tasks EXCEPT ![t] = IdleTask]
    /\ started' = [started EXCEPT ![t] = EmptyMap]
    /\ UNCHANGED <<now, banlist, load_balancing_mode, states, backends, notPool>>

\* A second passes.
tick ==
    /\ now < MaxTime
    /\ now' = now + 1
    /\ UNCHANGED <<banlist, load_balancing_mode, states, backends, started, tasks, notPool>>

\* ------------------------------------------------------------------------
\* In-flight queries: InflightQueryData and InFlightQueryHashMap
\* ------------------------------------------------------------------------

\* inflight_query_cache_config.max_entries
MaxEntries == 2

\* A counter is not counted past this.
MaxHits == 2

\* Query text is a sequence of lexical units: the keywords in either case,
\* white space, the comment delimiters, a star, and other text.
Whitespace == {" ", "\n"}

SelectKeyword == {"SELECT", "select"}

FromKeyword == {"FROM", "from"}

\* The statements the clients send.
Statements ==
    { <<"SELECT", " ", "a", " ", "FROM", " ", "t", " ", "/*", "x", "*/">>,
      <<"SELECT", " ", "a", " ", "FROM", " ", "t", " ", "--", "x">>,
      <<"select", "\n", "a", "\n", "from", " ", "t">>,
      <<"SELECT", " ", "b", " ", "/*", "x", "*", "y", "*/", " ", "FROM", " ", "t">>,
      <<"SELECT", " ", " ", "FROM", " ", "u">>,
      <<"--", " ", "SELECT", " ", "a", " ", "FROM", " ", "t">>,
      <<"SELECT", " ", "FROM", " ", "t">>,
      <<"SELECT", " ", "a">>,
      <<"UPDATE", " ", "t", " ", "/*", " ", "SELECT", " ", "*/">>,
      <<"a", "FROM", " ", " ", "SELECT">> }

\* The bind messages of the extended protocol, as get_string renders them.
BindMessages == {<<>>, <<"b">>}

\* enum InflightQueryData
Simple(s) == [kind |-> "Simple", parse_query |-> s, bind_message_bytes |-> <<>>]

Extended(parse_query, bind) ==
    [kind |-> "Extended", parse_query |-> parse_query, bind_message_bytes |-> bind]

QueryData ==
    {Simple(s) : s \in Statements}
    \cup {Extended(s, b) : s \in {q \in Statements : Len(q) = 7}, b \in BindMessages}

\* INFLIGHT_QUERY_STATEMENT_REGEX, (?i)SELECT\s+[\s\S]*\s+FROM\s+[\s\S]*,
\* searched anywhere in the text: SELECT, white space right after it, white
\* space right before a later FROM, the two runs of white space apart.
is_match(text) ==
    \E i, k \in 1 .. Len(text) :
        /\ text[i] \in SelectKeyword
        /\ text[k] \in FromKeyword
        /\ k >= i + 3
        /\ text[i + 1] \in Whitespace
        /\ text[k - 1] \in Whitespace
        /\ k + 1 <= Len(text)
        /\ text[k + 1] \in Whitespace

\* The position past a line comment opening at 1: --[^\n]* stops before
\* the line break.
RECURSIVE LineCommentEnd(_, _)
LineCommentEnd(text, i) ==
    IF i > Len(text) \/ text[i] = "\n" THEN i ELSE LineCommentEnd(text, i + 1)

\* The position past a block comment opening at 1, or 0 when \/\*[^*]*\*\/
\* does not match there: up to the closing delimiter no star may occur.
RECURSIVE BlockCommentEnd(_, _)
BlockCommentEnd(text, i) ==
    IF i > Len(text) THEN 0
    ELSE IF text[i] = "*/" THEN i + 1
    ELSE IF text[i] \in {"*", "/*"} THEN 0
    ELSE BlockCommentEnd(text, i + 1)

\* _sanitize_query_string: PG_COMMENT_REGEX replaced by nothing, leftmost
\* match first.
RECURSIVE _sanitize_query_string(_)
_sanitize_query_string(text) ==
    IF text = <<>> THEN <<>>
    ELSE IF text[1] = "--"
         THEN _sanitize_query_string(SubSeq(text, LineCommentEnd(text, 2), Len(text)))
    ELSE IF text[1] = "/*" /\ BlockCommentEnd(text, 2) > 0
         THEN _sanitize_query_string(SubSeq(text, BlockCommentEnd(text, 2), Len(text)))
    ELSE <<text[1]>> \o _sanitize_query_string(Tail(text))

\* sanitize_query_string: the statement text loses its comments, the bind
\* message is left as it is.
sanitize_query_string(query_data) ==
    [query_data EXCEPT !.parse_query = _sanitize_query_string(@)]

get_string(query_data) ==
    IF query_data.kind = "Simple" THEN query_data.parse_query
    ELSE query_data.parse_query \o <<" ">> \o query_data.bind_message_bytes

\* The text the statement filter looks at.
query_string(query_data) == query_data.parse_query

NoKey == <<"None">>

\* insert_into_cache ignores no statement.
ignored_never(query_data) == FALSE

\* "Check to see if this is a statement that we want to ignore"
ignored(query_data) == ~is_match(query_string(query_data))

\* "Inflight query cache is getting too big, skipping it"
too_big(size) == size > MaxEntries

\* A hit adds 2.
hit_twice(value) == value + 2

\* and_modify(|value| *value += 1); the u32 stays far below its width,
\* a counter being counted no further than MaxHits.
hit(value) == value + 1

\* The key is handed to every caller.
added_new_entry_to_cache_always(query, keys) == query

\* let mut added_new_entry_to_cache = Some(query.clone()), set to None by
\* and_modify, which runs when the map holds the key.
added_new_entry_to_cache(query, keys) == IF query \in keys THEN NoKey ELSE query

\* insert_into_cache, what it does to the map and what it returns: the
\* statement filter, then under the write lock the size check and the
\* entry of the key.
insert_under_write_guard(query_data) ==
    LET query == get_string(sanitize_query_string(query_data))
    IN  /\ query \in DOMAIN map => map[query] < MaxHits
        /\ IF ignored(query_data) \/ too_big(Cardinality(DOMAIN map))
           THEN /\ last' = [op |-> "insert", query_data |-> query_data, key |-> query,
                            returned |-> NoKey, logged |-> "none"]
                /\ UNCHANGED <<map, duplicates>>
           ELSE /\ last' = [op |-> "insert", query_data |-> query_data, key |-> query,
                            returned |-> added_new_entry_to_cache(query, DOMAIN map),
                            logged |-> "none"]
                /\ IF query \in DOMAIN map
                   THEN /\ map' = [map EXCEPT ![query] = hit(@)]
                        /\ duplicates' = [duplicates EXCEPT ![query] = @ + 1]
                   ELSE /\ map' = MapInsert(map, query, 0)
                        /\ duplicates' = MapInsert(duplicates, query, 0)

\* insert_into_cache: the whole call, the map being under its write lock
\* from the size check to the end.
insert_into_cache(query_data) ==
    /\ insert_under_write_guard(query_data)
    /\ UNCHANGED <<log_normalized_queries, inserters, notInFlight>>

\* evict_from_cache: the key is removed; a key that was hit is logged, with
\* its normalized form when that is asked for and pg_query can produce it.
evict_from_cache(query) ==
    /\ \E normalize_ok \in BOOLEAN :
          last' = [op |-> "evict", query_data |-> Simple(<<>>), key |-> query,
                   returned |-> NoKey,
                   logged |-> IF query \in DOMAIN map /\ map[query] > 0
                              THEN IF log_normalized_queries /\ normalize_ok
                                   THEN "hits and query" ELSE "hits"
                              ELSE "none"]
    /\ map' = MapRemove(map, query)
    /\ duplicates' = MapRemove(duplicates, query)
    /\ UNCHANGED <<log_normalized_queries, inserters, notInFlight>>

\* The keys callers evict: the ones insert_into_cache can hand out.
Keys == {get_string(sanitize_query_string(q)) : q \in QueryData}

\* The tasks that call insert_into_cache side by side.
Inserters == {"i1", "i2", "i3"}

\* What they send: one statement with a block comment and with a line
\* comment, two other statements, one that the filter turns away.
SentTogether ==
    {Simple(s) : s \in {q \in Statements : Len(q) >= 10 /\ q[3] = "a"}}
    \cup {Simple(s) : s \in {q \in Statements : q[2] = "\n" \/ q[Len(q)] = "u" \/ Len(q) = 3}}

IdleInserter ==
    [pc |-> "idle", query_data |-> Simple(<<>>), returned |-> NoKey,
     \* kept for the properties: the key was in the map when the call began,
     \* the size check turned the call away
     held |-> FALSE, skipped |-> FALSE]

\* The key of the statement an inserter has sent.
key_of(i) == get_string(sanitize_query_string(inserters[i].query_data))

\* insert_into_cache is called: the statement filter, which looks at no
\* shared state, and then the wait for the write lock.
insert_call(i, query_data) ==
    LET query == get_string(sanitize_query_string(query_data))
        ahead == {j \in Inserters : inserters[j].pc = "write" /\ key_of(j) = query}
    IN  /\ inserters[i].pc = "idle"
        \* the counter does not get past MaxHits
        /\ (IF query \in DOMAIN map THEN map[query] + 1 ELSE 0) + Cardinality(ahead) <= MaxHits
        /\ inserters' = [inserters EXCEPT ![i] =
               [pc |-> IF ignored(query_data) THEN "returned" ELSE "write",
                query_data |-> query_data, returned |-> NoKey,
                held |-> query \in DOMAIN map, skipped |-> FALSE]]
        /\ UNCHANGED <<map, log_normalized_queries, duplicates, last, notInFlight>>

\* insert_into_cache, from self.map.write() to the return: one critical
\* section.
insert_write(i) ==
    /\ inserters[i].pc = "write"
    /\ insert_under_write_guard(inserters[i].query_data)
    /\ inserters' = [inserters EXCEPT ![i] =
           [@ EXCEPT !.pc = "returned", !.returned = last'.returned,
                     !.skipped = too_big(Cardinality(DOMAIN map))]]
    /\ UNCHANGED <<log_normalized_queries, notInFlight>>

\* No call is under way any more: the callers go on.
inserters_return ==
    /\ \A i \in Inserters : inserters[i].pc # "write"
    /\ \E i \in Inserters : inserters[i].pc = "returned"
    /\ inserters' = [i \in Inserters |-> IdleInserter]
    /\ UNCHANGED <<map, log_normalized_queries, duplicates, last, notInFlight>>

\* A key is evicted while no insert is under way.
evict_between(query) ==
    /\ \A i \in Inserters : inserters[i].pc = "idle"
    /\ evict_from_cache(query)

\* ------------------------------------------------------------------------
\* Pause and resume: ConnectionPool::pause / resume / wait_paused
\* ------------------------------------------------------------------------

\* resume() is not called more often than this.
MaxResumes == 2

Waiters == {"w1", "w2"}

\* A caller that is not inside wait_paused.
IdleWaiter ==
    [pc |-> "idle", notified_at |-> 0, polled_at |-> 0, observed |-> FALSE,
     resumed |-> FALSE]

\* pause(): the flag is set.
pause ==
    /\ paused' = TRUE
    /\ UNCHANGED <<notify_waiters_calls, resume_pc, waiters, notPause>>

\* resume(), first statement: the flag is cleared.
resume ==
    /\ resume_pc = "idle"
    /\ notify_waiters_calls < MaxResumes
    /\ paused' = FALSE
    /\ resume_pc' = "notify_waiters"
    /\ UNCHANGED <<notify_waiters_calls, waiters, notPause>>

\* resume(), second statement: notify_waiters(). Every caller that is
\* inside wait_paused by now has seen a resume since it registered.
resume_notify_waiters ==
    /\ resume_pc = "notify_waiters"
    /\ notify_waiters_calls' = notify_waiters_calls + 1
    /\ resume_pc' = "idle"
    /\ waiters' = [w \in Waiters |->
                      IF waiters[w].pc \in {"load", "await", "parked"}
                      THEN [waiters[w] EXCEPT !.resumed = TRUE]
                      ELSE waiters[w]]
    /\ UNCHANGED <<paused, notPause>>

\* wait_paused, first statement: paused_waiter.notified() makes the wait.
wait_paused(w) ==
    /\ waiters[w].pc = "idle"
    /\ waiters' = [waiters EXCEPT ![w] =
                      [IdleWaiter EXCEPT !.pc = "load", !.notified_at = notify_waiters_calls]]
    /\ UNCHANGED <<paused, notify_waiters_calls, resume_pc, notPause>>

\* wait_paused, second statement: the flag is read; false is returned at
\* once, true goes on to wait.
wait_paused_load(w) ==
    /\ waiters[w].pc = "load"
    /\ waiters' = [waiters EXCEPT ![w] =
                      [@ EXCEPT !.observed = paused,
                                !.pc = IF paused THEN "await" ELSE "done"]]
    /\ UNCHANGED <<paused, notify_waiters_calls, resume_pc, notPause>>

\* wait_paused, waiter.await: the wait is polled for the first time.
wait_paused_await(w) ==
    /\ waiters[w].pc = "await"
    /\ waiters' = [waiters EXCEPT ![w] =
                      [@ EXCEPT !.polled_at = notify_waiters_calls, !.pc = "parked"]]
    /\ UNCHANGED <<paused, notify_waiters_calls, resume_pc, notPause>>

\* A wait that hears only the notify_waiters calls made since it was
\* first polled.
notified_since_poll(w) == notify_waiters_calls # waiters[w].polled_at

\* Notified: a wait receives every notify_waiters call made since
\* notified() created it, polled by then or not.
notified(w) == notify_waiters_calls # waiters[w].notified_at

\* wait_paused, waiter.await: the wait is over and true is returned.
wait_paused_wake(w) ==
    /\ waiters[w].pc = "parked"
    /\ notified(w)
    /\ waiters' = [waiters EXCEPT ![w] = [@ EXCEPT !.pc = "done"]]
    /\ UNCHANGED <<paused, notify_waiters_calls, resume_pc, notPause>>

\* The caller has its answer.
wait_paused_return(w) ==
    /\ waiters[w].pc = "done"
    /\ waiters' = [waiters EXCEPT ![w] = IdleWaiter]
    /\ UNCHANGED <<paused, notify_waiters_calls, resume_pc, notPause>>

\* ------------------------------------------------------------------------
\* The registry: POOLS, get_pool and ConnectionPool::from_config
\* ------------------------------------------------------------------------

\* The configuration takes hash values up to this.
MaxHash == 2

\* from_config is called at most this many times.
MaxReloads == 2

\* The servers, mirrors included, of every pool of the configuration.
ServersPerPool == 2

PoolNames == {"db1", "db2"}

\* pool_config.users
Users == {"u"}

Clients == {"c1"}

\* PoolIdentifier::new
PoolIdentifier(db, user) == [db |-> db, user |-> user]

\* Arc::new for a pool of db, the shared inner of its bb8 pools included: an
\* allocation, told from the others by n.
Arc(db, n) == [db |-> db, n |-> n]

NoArc == Arc("None", 0)

NoPool ==
    [db |-> "None", user |-> "None", config_hash |-> 0, first_address_id |-> 0,
     databases |-> NoArc, banlist |-> NoArc, validated |-> NoArc, paused |-> NoArc]

\* The allocations a ConnectionPool value points to.
RefsOf(pool) ==
    IF pool = NoPool THEN {}
    ELSE {pool.databases, pool.banlist, pool.validated, pool.paused}

RefsIn(pools) == UNION {RefsOf(pools[id]) : id \in DOMAIN pools}

\* An allocation lives as long as a ConnectionPool value points to it.
Live(registry, building, handles) ==
    RefsIn(registry) \cup RefsIn(building) \cup RefsIn(handles)

Collect(h, live) == [r \in (DOMAIN h) \cap live |-> h[r]]

\* An allocation apart from the live ones and from those of the mapping the
\* last reload replaced.
FreshRef(db) ==
    LET taken == DOMAIN heap \cup RefsIn(prev_POOLS)
    IN  Arc(db, CHOOSE n \in 1 .. (Cardinality(taken) + 1) : Arc(db, n) \notin taken)

\* What a new pool's allocations hold: an empty banlist, validated and
\* paused false.
NewCell == [banned |-> FALSE, validated |-> FALSE, paused |-> FALSE]

IdleReload ==
    [pc |-> "idle", config |-> [p \in PoolNames |-> 0], todo |-> {},
     new_pools |-> EmptyMap, address_id |-> 0, calls |-> 0, result |-> "none"]

\* #[derive(Clone)] of ConnectionPool: the Arc fields are shared.
clone(pool) == pool

\* The mapping under construction is read while there is one.
load_new_pools == IF reload.pc = "pools" THEN reload.new_pools ELSE POOLS

\* POOLS.load(): the published mapping, whole.
load == POOLS

\* get_pool: the published mapping is looked up and the pool cloned.
get_pool(db, user) ==
    IF PoolIdentifier(db, user) \in DOMAIN load
    THEN clone(load[PoolIdentifier(db, user)])
    ELSE NoPool

\* get_all_pools: the published mapping is cloned.
get_all_pools == load

\* No pool is taken over.
same_config_never(pool, new_pool_hash_value) == FALSE

\* "If the pool hasn't changed, get existing reference"
same_config(pool, new_pool_hash_value) == pool.config_hash = new_pool_hash_value

\* The configuration file is edited: a pool changes, appears or goes.
\* from_config reads the configuration once, so an edit made while it runs
\* is the same edit made after it.
config_change(p, h) ==
    /\ reload.pc = "idle"
    /\ config[p] # h
    /\ config' = [config EXCEPT ![p] = h]
    /\ UNCHANGED <<POOLS, prev_POOLS, heap, reload, held, notRegistry>>

\* from_config: get_config() and the empty new_pools.
from_config ==
    /\ reload.pc = "idle"
    /\ reload.calls < MaxReloads
    /\ reload' = [pc |-> "pools", config |-> config, calls |-> reload.calls + 1,
                  todo |-> {PoolIdentifier(p, u) : p \in {q \in PoolNames : config[q] # 0},
                                                  u \in Users},
                  new_pools |-> EmptyMap, address_id |-> 0, result |-> "none"]
    /\ UNCHANGED <<config, POOLS, prev_POOLS, heap, held, notRegistry>>

\* from_config, a pool whose hash is the one of the published pool: the
\* published pool is cloned into new_pools.
from_config_unchanged(id) ==
    /\ reload.pc = "pools"
    /\ id \in reload.todo
    /\ get_pool(id.db, id.user) # NoPool
    /\ same_config(get_pool(id.db, id.user), reload.config[id.db])
    /\ reload' = [reload EXCEPT !.todo = @ \ {id},
                                !.new_pools = MapInsert(@, id, clone(get_pool(id.db, id.user)))]
    /\ UNCHANGED <<config, POOLS, prev_POOLS, heap, held, notRegistry>>

\* from_config, "creating new pool": the pool is built on allocations of
\* its own, its addresses numbered from address_id on.
from_config_new(id) ==
    /\ reload.pc = "pools"
    /\ id \in reload.todo
    /\ get_pool(id.db, id.user) = NoPool
       \/ ~same_config(get_pool(id.db, id.user), reload.config[id.db])
    /\ LET pool == [db |-> id.db, user |-> id.user,
                    config_hash |-> reload.config[id.db],
                    first_address_id |-> reload.address_id,
                    databases |-> FreshRef(id.db), banlist |-> FreshRef(id.db),
                    validated |-> FreshRef(id.db), paused |-> FreshRef(id.db)]
       IN  /\ reload' = [reload EXCEPT !.todo = @ \ {id},
                                       !.new_pools = MapInsert(@, id, pool),
                                       !.address_id = @ + ServersPerPool]
           /\ heap' = MapInsert(heap, FreshRef(id.db), NewCell)
    /\ UNCHANGED <<config, POOLS, prev_POOLS, held, notRegistry>>

\* The pools built so far are published.
stored_so_far(pools, new_pools) == new_pools

\* The ? of pool.build(manager).await? returns before POOLS.store is
\* reached: the published mapping stays.
not_stored(pools, new_pools) == pools

\* from_config, validate_config set and pool.build(manager).await? fails:
\* the error is returned and new_pools dropped, the pools of the
\* configuration not yet gone through left aside.
from_config_error(id) ==
    /\ reload.pc = "pools"
    /\ id \in reload.todo
    /\ get_pool(id.db, id.user) = NoPool
       \/ ~same_config(get_pool(id.db, id.user), reload.config[id.db])
    /\ reload' = [IdleReload EXCEPT !.calls = reload.calls, !.pc = "returned",
                                    !.result = "Err", !.todo = reload.todo]
    /\ POOLS' = not_stored(POOLS, reload.new_pools)
    /\ heap' = Collect(heap, Live(POOLS', EmptyMap, held))
    /\ UNCHANGED <<config, prev_POOLS, held, notRegistry>>

\* from_config, POOLS.store(Arc::new(new_pools)): the mapping is replaced.
from_config_store ==
    /\ reload.pc = "pools"
    /\ reload.todo = {}
    /\ POOLS' = reload.new_pools
    /\ prev_POOLS' = POOLS
    /\ reload' = [IdleReload EXCEPT !.calls = reload.calls, !.pc = "returned", !.result = "Ok"]
    /\ heap' = Collect(heap, Live(reload.new_pools, EmptyMap, held))
    /\ UNCHANGED <<config, held, notRegistry>>

\* The caller of from_config has its answer.
from_config_return ==
    /\ reload.pc = "returned"
    /\ reload' = [IdleReload EXCEPT !.calls = reload.calls]
    /\ UNCHANGED <<config, POOLS, prev_POOLS, heap, held, notRegistry>>

\* A client looks its pool up and keeps what get_pool returns.
client_get_pool(c, db, user) ==
    /\ held' = [held EXCEPT ![c] = get_pool(db, user)]
    /\ heap' = Collect(heap, Live(POOLS, reload.new_pools, held'))
    /\ UNCHANGED <<config, POOLS, prev_POOLS, reload, notRegistry>>

\* Through the pool it holds a client bans or unbans a replica, pauses or
\* resumes the pool, or has it validated.
client_use(c, field, value) ==
    /\ held[c] # NoPool
    /\ LET r == CASE field = "banned" -> held[c].banlist
                  [] field = "paused" -> held[c].paused
                  [] OTHER -> held[c].validated
       IN  /\ heap[r][field] # value
           /\ heap' = [heap EXCEPT ![r] = [@ EXCEPT ![field] = value]]
    /\ UNCHANGED <<config, POOLS, prev_POOLS, reload, held, notRegistry>>

\* Address.id of the addresses, mirrors included, of a pool: address_id as
\* from_config found it and one more for each address built.
address_ids(pool) == pool.first_address_id .. (pool.first_address_id + ServersPerPool - 1)

\* What is seen through a ConnectionPool value.
observed(pool) ==
    [banned |-> heap[pool.banlist].banned,
     validated |-> heap[pool.validated].validated, paused |-> heap[pool.paused].paused]

\* ------------------------------------------------------------------------
\* Validation: ConnectionPool::validate / validated
\* ------------------------------------------------------------------------

\* The callers of validate() on the clones of one pool.
Validators == {"v1", "v2"}

NoEndpoint == [shard |-> 0 - 1, server |-> 0 - 1]

IdleValidation ==
    [pc |-> "idle", futures |-> [e \in Endpoints |-> "none"], result |-> "none"]

\* The flag is turned over.
store_negated(flag) == ~flag

\* validate, in a task: validated.store(true, Ordering::Relaxed)
store_true(flag) == TRUE

\* validate(): one task is spawned for every server of every shard.
validate(v) ==
    /\ validation[v].pc = "idle"
    /\ validation' = [validation EXCEPT ![v] =
           [pc |-> "join_all", futures |-> [e \in Endpoints |-> "running"], result |-> "none"]]
    /\ UNCHANGED <<validated, original_server_parameters, last_finished, notValidate>>

\* ServerParameters::new(), what from_config puts in original_server_parameters.
NewServerParameters == [reported_by |-> NoEndpoint]

\* server.server_parameters(): what the server of the endpoint reported
\* when the session was set up.
server_parameters(e) == [reported_by |-> e]

NoGuard == "none"

\* The write guard is had for the asking.
write_unguarded(lock) == TRUE

\* pool_server_parameters.write(): the guard is had when nobody holds it.
write(lock) == lock.guard = NoGuard

\* validate, a task from start to end in one step: the endpoint pool hands
\* out a session; the server parameters are taken from it and written, and
\* validated is set.
validate_task_ok(v, e) ==
    /\ validation[v].pc = "join_all"
    /\ validation[v].futures[e] = "running"
    /\ write(original_server_parameters)
    /\ validation' = [validation EXCEPT ![v].futures[e] = "acquired"]
    /\ original_server_parameters' = [guard |-> NoGuard, value |-> server_parameters(e)]
    /\ validated' = store_true(validated)
    /\ last_finished' = e
    /\ UNCHANGED notValidate

\* validate, a task: the endpoint pool hands out a session, the task takes
\* the write guard and writes the server parameters.
validate_task_write(v, e) ==
    /\ validation[v].pc = "join_all"
    /\ validation[v].futures[e] = "running"
    /\ write(original_server_parameters)
    /\ validation' = [validation EXCEPT ![v].futures[e] = "written"]
    /\ original_server_parameters' = [guard |-> <<v, e>>, value |-> server_parameters(e)]
    /\ UNCHANGED <<validated, last_finished, notValidate>>

\* validate, a task, the guard still held: validated.store(true, Ordering::Relaxed)
validate_task_store(v, e) ==
    /\ validation[v].pc = "join_all"
    /\ validation[v].futures[e] = "written"
    /\ validation' = [validation EXCEPT ![v].futures[e] = "stored"]
    /\ validated' = store_true(validated)
    /\ UNCHANGED <<original_server_parameters, last_finished, notValidate>>

\* validate, a task: the block ends, the guard is dropped, the task is over.
validate_task_end(v, e) ==
    /\ validation[v].pc = "join_all"
    /\ validation[v].futures[e] = "stored"
    /\ validation' = [validation EXCEPT ![v].futures[e] = "acquired"]
    /\ original_server_parameters' = [original_server_parameters EXCEPT !.guard = NoGuard]
    /\ last_finished' = e
    /\ UNCHANGED <<validated, notValidate>>

\* validate, a task: "Shard down or misconfigured", the task returns.
validate_task_error(v, e) ==
    /\ validation[v].pc = "join_all"
    /\ validation[v].futures[e] = "running"
    /\ validation' = [validation EXCEPT ![v].futures[e] = "failed"]
    /\ UNCHANGED <<validated, original_server_parameters, last_finished, notValidate>>

\* validate(): every task has ended; the call answers by the flag.
validate_join_all(v) ==
    /\ validation[v].pc = "join_all"
    /\ \A e \in Endpoints : validation[v].futures[e] \in {"acquired", "failed"}
    /\ validation' = [validation EXCEPT ![v].pc = "done",
                                        ![v].result = IF validated THEN "Ok" ELSE "AllServersDown"]
    /\ UNCHANGED <<validated, original_server_parameters, last_finished, notValidate>>

\* The caller has its answer.
validate_return(v) ==
    /\ validation[v].pc = "done"
    /\ validation' = [validation EXCEPT ![v] = IdleValidation]
    /\ UNCHANGED <<validated, original_server_parameters, last_finished, notValidate>>

\* ------------------------------------------------------------------------
\* from_config: the shards, the addresses and the banlist of a pool
\* ------------------------------------------------------------------------

\* A pool has no more shards than this.
MaxShards == 2

\* A shard has no more servers than this.
MaxServers == 2

\* The shard keys as the configuration file spells them.
Digits == <<"0", "1", "2", "3", "4", "5", "6", "7", "8", "9">>

\* shard_idx.parse::<usize>().unwrap()
parse(shard_idx) == (CHOOSE n \in 1 .. Len(Digits) : Digits[n] = shard_idx) - 1

\* shard.servers, by the role of each server.
ServerLists == UNION {[1 .. m -> Role] : m \in 1 .. MaxServers}

\* pool_config.shards as the configuration hands it over: the shards are
\* numbered from 0 without a gap.
ShardConfigs ==
    UNION {[{Digits[k] : k \in 1 .. n} -> ServerLists] : n \in 1 .. MaxShards}

\* shard_ids: the keys sorted by the number each one spells.
shard_ids(shards) ==
    CHOOSE ids \in [1 .. Cardinality(DOMAIN shards) -> DOMAIN shards] :
        \A i, j \in 1 .. Cardinality(DOMAIN shards) : i < j => parse(ids[i]) < parse(ids[j])

\* replica_number as the loop over the servers has it on reaching a server.
replica_number(servers, address_index) ==
    Cardinality({j \in 1 .. address_index : servers[j] = "Replica"})

\* The address numbered by its place among the replicas.
Address_by_replica_number(shard_idx, servers, address_index) ==
    [shard |-> parse(shard_idx), address_index |-> replica_number(servers, address_index),
     role |-> servers[address_index + 1],
     replica_number |-> replica_number(servers, address_index)]

\* let address = Address { .. }: the server met at address_index by
\* enumerate(), in the shard of key shard_idx.
Address(shard_idx, servers, address_index) ==
    [shard |-> parse(shard_idx), address_index |-> address_index,
     role |-> servers[address_index + 1],
     replica_number |-> replica_number(servers, address_index)]

\* ServerPool::new(address.clone(), ..): the endpoint pool of an address.
ServerPool(address) == [address |-> address]

\* The loop over shard_ids: for each key, in order, one entry is pushed to
\* shards (the databases of the pool), to addresses and to banlist; within
\* a shard, one endpoint pool and one address per server, in order.
from_config_pool(shards) ==
    LET ids == shard_ids(shards)
        places == 0 .. (Len(ids) - 1)
        servers(p) == shards[ids[p + 1]]
    IN  [databases |->
             [p \in places |-> [i \in 0 .. (Len(servers(p)) - 1) |->
                 ServerPool(Address(ids[p + 1], servers(p), i))]],
         addresses |->
             [p \in places |-> [i \in 0 .. (Len(servers(p)) - 1) |->
                 Address(ids[p + 1], servers(p), i)]],
         banlist |-> [p \in places |-> EmptyMap]]

\* No pool has been built.
NoBuilt == [databases |-> <<>>, addresses |-> <<>>, banlist |-> <<>>]

\* The addresses of the pool built.
built_addresses ==
    UNION {{built.addresses[s][i] : i \in DOMAIN built.addresses[s]} : s \in DOMAIN built.addresses}

\* from_config builds the pool of the shards configured.
from_config_build ==
    /\ built = NoBuilt
    /\ built' = from_config_pool(shards_config)
    /\ UNCHANGED <<shards_config, notBuild>>

\* ban() on an address of the pool built.
built_ban(address, reason) ==
    /\ address \in built_addresses
    /\ built' = [built EXCEPT !.banlist = ban_insert(@, address, reason, now)]
    /\ UNCHANGED <<shards_config, notBuild>>

\* unban() on an address of the pool built.
built_unban(address) ==
    /\ address \in built_addresses
    /\ built' = [built EXCEPT !.banlist =
           [@ EXCEPT ![address.shard] = MapRemove(@, address)]]
    /\ UNCHANGED <<shards_config, notBuild>>

\* ------------------------------------------------------------------------
\* Specifications
\* ------------------------------------------------------------------------

\* The other specifications leave the pool of one shard unbuilt.
BuildInit ==
    /\ shards_config = [k \in {Digits[1]} |-> Topology[1]]
    /\ built = NoBuilt

PoolInit ==
    /\ now = 0
    /\ banlist = [s \in Shards |-> EmptyMap]
    /\ load_balancing_mode \in LoadBalancingMode
    /\ states \in [Endpoints -> State]
    /\ backends \in [AllAddresses -> Backend \cup {"flapping"}]
    /\ started = [t \in Tasks |-> EmptyMap]
    /\ tasks = [t \in Tasks |-> IdleTask]

InFlightInit ==
    /\ map = EmptyMap
    /\ duplicates = EmptyMap
    /\ log_normalized_queries \in BOOLEAN
    /\ last = [op |-> "none", query_data |-> Simple(<<>>), key |-> NoKey,
               returned |-> NoKey, logged |-> "none"]
    /\ inserters = [i \in Inserters |-> IdleInserter]

PauseInit ==
    /\ paused = FALSE
    /\ notify_waiters_calls = 0
    /\ resume_pc = "idle"
    /\ waiters = [w \in Waiters |-> IdleWaiter]

RegistryInit ==
    /\ config = [p \in PoolNames |-> 1]
    /\ POOLS = EmptyMap
    /\ prev_POOLS = EmptyMap
    /\ heap = EmptyMap
    /\ reload = IdleReload
    /\ held = [c \in Clients |-> NoPool]

ValidateInit ==
    /\ validated = FALSE
    /\ validation = [v \in Validators |-> IdleValidation]
    /\ original_server_parameters = [guard |-> NoGuard, value |-> NewServerParameters]
    /\ last_finished = NoEndpoint

\* PoolSettings::default: load_balancing_mode is Random.
Random == load_balancing_mode = "Random"

\* No endpoint pool has a connection yet.
NoConnections == states = [e \in Endpoints |-> [connections |-> 0, idle_connections |-> 0]]

\* Each specification starts the other components in one fixed state.
\* The callers of the pool run side by side against backends of which
\* nothing is known.
Init ==
    /\ PoolInit /\ Random /\ NoConnections /\ backends = [a \in AllAddresses |-> "flapping"]
    /\ InFlightInit /\ log_normalized_queries
    /\ PauseInit
    /\ RegistryInit
    /\ ValidateInit
    /\ BuildInit

InitInFlight ==
    /\ PoolInit /\ Random /\ NoConnections /\ backends = [a \in AllAddresses |-> "flapping"]
    /\ InFlightInit
    /\ PauseInit
    /\ RegistryInit
    /\ ValidateInit
    /\ BuildInit

\* ConnectionPool: the ban manager and the checkout.
Next ==
    \/ tick
    \/ \E a \in AllAddresses : unban(a)
    \/ \E a \in AllAddresses, r \in CallerReasons : ban(a, r)
    \/ \E t \in Tasks, a \in AllAddresses : try_unban(t, a)
    \/ \E t \in Tasks : try_unban_read_all(t)
    \/ \E t \in Tasks : try_unban_clear(t)
    \/ \E t \in Tasks : try_unban_read_entry(t)
    \/ \E t \in Tasks : try_unban_remove(t)
    \/ \E t \in Tasks, s \in Shards, r \in Role : get(t, s, r)
    \/ \E t \in Tasks : get_pop(t)
    \/ \E t \in Tasks : get_checkout_error(t)
    \/ \E t \in Tasks : get_checkout_ok(t)
    \/ \E t \in Tasks : run_health_check_ok(t)
    \/ \E t \in Tasks : run_health_check_failed(t)
    \/ \E t \in Tasks : task_return(t)

Spec == Init /\ [][Next]_vars

\* get, try_unban and ban calls side by side, the clock running, and no
\* caller of unban.
NextContend ==
    \/ tick
    \/ \E a \in AllAddresses, r \in CallerReasons : ban(a, r)
    \/ \E t \in Tasks, a \in AllAddresses : try_unban(t, a)
    \/ \E t \in Tasks : try_unban_read_all(t)
    \/ \E t \in Tasks : try_unban_clear(t)
    \/ \E t \in Tasks : try_unban_read_entry(t)
    \/ \E t \in Tasks : try_unban_remove(t)
    \/ \E t \in Tasks, s \in Shards, r \in Role : get(t, s, r)
    \/ \E t \in Tasks : get_pop(t)
    \/ \E t \in Tasks : get_checkout_error(t)
    \/ \E t \in Tasks : get_checkout_ok(t)
    \/ \E t \in Tasks : run_health_check_ok(t)
    \/ \E t \in Tasks : run_health_check_failed(t)
    \/ \E t \in Tasks : task_return(t)

SpecContend == Init /\ [][NextContend]_vars

\* One caller at a time: a call runs from its start to its return with no
\* other call and no tick in between, against backends that stay as they
\* are. Between the calls the banlist is changed and time passes.
InitAlone ==
    /\ PoolInit /\ Random /\ NoConnections /\ backends \in [AllAddresses -> Backend]
    /\ InFlightInit /\ log_normalized_queries
    /\ PauseInit
    /\ RegistryInit
    /\ ValidateInit
    /\ BuildInit

NextAlone ==
    \/ Quiet /\ tick
    \/ Quiet /\ \E a \in AllAddresses : unban(a)
    \/ Quiet /\ \E a \in AllAddresses, r \in CallerReasons : ban(a, r)
    \/ \E t \in Tasks, s \in Shards, r \in Role : get_alone(t, s, r)
    \/ \E t \in Tasks : get_pop(t)
    \/ \E t \in Tasks : try_unban_read_all(t)
    \/ \E t \in Tasks : try_unban_clear(t)
    \/ \E t \in Tasks : try_unban_read_entry(t)
    \/ \E t \in Tasks : try_unban_remove(t)
    \/ \E t \in Tasks : get_checkout_error(t)
    \/ \E t \in Tasks : get_checkout_ok(t)
    \/ \E t \in Tasks : run_health_check_ok(t)
    \/ \E t \in Tasks : run_health_check_failed(t)
    \/ \E t \in Tasks : task_return(t)

SpecAlone == InitAlone /\ [][NextAlone]_vars

\* Load balancing: get() under either mode on healthy backends, while bb8
\* reports now these counters and now those.
InitBalance ==
    /\ PoolInit /\ backends = [a \in AllAddresses |-> "healthy"]
    /\ InFlightInit /\ log_normalized_queries
    /\ PauseInit
    /\ RegistryInit
    /\ ValidateInit
    /\ BuildInit

NextBalance ==
    \/ \E e \in Endpoints, state \in State : state_change(e, state)
    \/ \E t \in Tasks, s \in Shards, r \in Role : get(t, s, r)
    \/ \E t \in Tasks : get_pop(t)
    \/ \E t \in Tasks : get_checkout_ok(t)
    \/ \E t \in Tasks : run_health_check_ok(t)
    \/ \E t \in Tasks : task_return(t)

SpecBalance == InitBalance /\ [][NextBalance]_vars

\* validate() called again and again, by two callers at once, with bans,
\* pauses and resumes going on.
NextValidate ==
    \/ \E v \in Validators : validate(v)
    \/ \E v \in Validators, e \in Endpoints : validate_task_ok(v, e)
    \/ \E v \in Validators, e \in Endpoints : validate_task_error(v, e)
    \/ \E v \in Validators : validate_join_all(v)
    \/ \E v \in Validators : validate_return(v)
    \/ pause
    \/ resume
    \/ resume_notify_waiters
    \/ \E a \in AllAddresses : unban(a)
    \/ \E a \in AllAddresses : ban(a, Reason("MessageSendFailed"))

SpecValidate == Init /\ [][NextValidate]_vars

\* validate() called again and again, by two callers at once, each task
\* step by step.
NextValidateTasks ==
    \/ \E v \in Validators : validate(v)
    \/ \E v \in Validators, e \in Endpoints : validate_task_write(v, e)
    \/ \E v \in Validators, e \in Endpoints : validate_task_store(v, e)
    \/ \E v \in Validators, e \in Endpoints : validate_task_end(v, e)
    \/ \E v \in Validators, e \in Endpoints : validate_task_error(v, e)
    \/ \E v \in Validators : validate_join_all(v)
    \/ \E v \in Validators : validate_return(v)

SpecValidateTasks == Init /\ [][NextValidateTasks]_vars

\* from_config on any shards the configuration can hold, then bans and
\* unbans on the pool built.
InitBuild ==
    /\ PoolInit /\ Random /\ NoConnections /\ backends = [a \in AllAddresses |-> "flapping"]
    /\ InFlightInit /\ log_normalized_queries
    /\ PauseInit
    /\ RegistryInit
    /\ ValidateInit
    /\ shards_config \in ShardConfigs
    /\ built = NoBuilt

NextBuild ==
    \/ from_config_build
    \/ \E address \in built_addresses : built_ban(address, Reason("MessageSendFailed"))
    \/ \E address \in built_addresses : built_unban(address)

SpecBuild == InitBuild /\ [][NextBuild]_vars

\* InFlightQueryHashMap: inserts and evictions in any order.
NextInFlight ==
    \/ \E q \in QueryData : insert_into_cache(q)
    \/ \E k \in Keys : evict_from_cache(k)

SpecInFlight == InitInFlight /\ [][NextInFlight]_vars

\* InFlightQueryHashMap: inserts side by side, evictions between them.
NextInsertTogether ==
    \/ \E i \in Inserters, q \in SentTogether : insert_call(i, q)
    \/ \E i \in Inserters : insert_write(i)
    \/ inserters_return
    \/ \E k \in Keys : evict_between(k)

SpecInsertTogether == Init /\ [][NextInsertTogether]_vars

\* ConnectionPool: pause, resume and the callers of wait_paused.
NextPause ==
    \/ pause
    \/ resume
    \/ resume_notify_waiters
    \/ \E w \in Waiters : wait_paused(w)
    \/ \E w \in Waiters : wait_paused_load(w)
    \/ \E w \in Waiters : wait_paused_await(w)
    \/ \E w \in Waiters : wait_paused_wake(w)
    \/ \E w \in Waiters : wait_paused_return(w)

SpecPause == Init /\ [][NextPause]_vars

\* The scheduler polls a task that awaits and one that was woken.
SpecPauseFair ==
    /\ SpecPause
    /\ \A w \in Waiters : WF_vars(wait_paused_await(w)) /\ WF_vars(wait_paused_wake(w))

\* The registry: reloads, edits of the configuration and a client.
NextReload ==
    \/ \E p \in PoolNames, h \in 0 .. MaxHash : config_change(p, h)
    \/ from_config
    \/ \E p \in PoolNames, u \in Users : from_config_unchanged(PoolIdentifier(p, u))
    \/ \E p \in PoolNames, u \in Users : from_config_new(PoolIdentifier(p, u))
    \/ \E p \in PoolNames, u \in Users : from_config_error(PoolIdentifier(p, u))
    \/ from_config_store
    \/ from_config_return
    \/ \E c \in Clients, p \in PoolNames, u \in Users : client_get_pool(c, p, u)
    \/ \E c \in Clients : client_use(c, "banned", TRUE)
    \/ \E c \in Clients : client_use(c, "banned", FALSE)
    \/ \E c \in Clients : client_use(c, "paused", TRUE)
    \/ \E c \in Clients : client_use(c, "paused", FALSE)
    \/ \E c \in Clients : client_use(c, "validated", TRUE)

SpecReload == Init /\ [][NextReload]_vars

\* ------------------------------------------------------------------------
\* Properties of the ban manager and of the checkout
\* ------------------------------------------------------------------------

\* The step is one of caller t.
Stepped(t) == tasks'[t] # tasks[t]

every_replica_banned(shard) ==
    \A i \in Servers(shard) :
        addresses[shard][i].role = "Replica" => is_banned(addresses[shard][i])

\* C1: whatever ban, unban, try_unban and get calls have run and however
\* they interleaved, no shard's banlist holds a Primary: ban() on a Primary
\* leaves the banlist as it was and is_banned() of a Primary is false.
PrimaryNeverBanned ==
    /\ \A s \in Shards : DOMAIN banlist[s] \subseteq {a \in AllAddresses : a.role = "Replica"}
    /\ \A a \in AllAddresses : a.role = "Primary" => ~is_banned(a)

\* get() on the Primary failed its checkout, so ban() was called on the
\* Primary, and the Primary is not banned.
PrimaryBanAttempted ==
    \E t \in Tasks :
        /\ tasks[t].op = "get"
        /\ tasks[t].address.role = "Primary"
        /\ tasks[t].checkout = "error"
        /\ ~is_banned(tasks[t].address)

\* C2: when every replica of the shard is banned, try_unban on a replica of
\* the shard goes on to clear the shard's banlist, and having cleared it
\* answers true with the shard's banlist empty, whatever the reasons and
\* the ages of the bans.
AllBannedUnbansAll ==
    [][\A t \in Tasks :
          LET a == tasks[t].address
          IN  /\ (/\ tasks[t].pc = "try_unban"
                  /\ Stepped(t)
                  /\ a.role = "Replica"
                  /\ every_replica_banned(a.shard))
                 => tasks'[t].pc = "unban_all"
              /\ (tasks[t].pc = "unban_all" /\ Stepped(t))
                 => /\ banlist'[a.shard] = EmptyMap
                    /\ answer(tasks'[t].unban) = "true"]_vars

\* try_unban found every replica banned, one of them by an administrator
\* whose duration had not passed, cleared the banlist and answered true.
UnexpiredAdminBanCleared ==
    \E t \in Tasks :
        /\ tasks[t].unban = "all_banned"
        /\ tasks[t].cleared_admin
        /\ tasks[t].was_banned
        /\ banlist[tasks[t].address.shard] = EmptyMap

\* C3: with not every replica banned, try_unban on a replica banned for a
\* reason other than AdminBan answers false and leaves the banlist as it is
\* while now - timestamp <= ban_time, and once now - timestamp > ban_time
\* removes the entry and answers true.
BanTimeTTL ==
    [][\A t \in Tasks :
          LET a == tasks[t].address
              bans == banlist[a.shard]
          IN  /\ (/\ tasks[t].pc = "try_unban"
                  /\ Stepped(t)
                  /\ a.role = "Replica"
                  /\ ~every_replica_banned(a.shard))
                 => tasks'[t].pc = "check_ban_time"
              /\ (/\ tasks[t].pc = "check_ban_time"
                  /\ Stepped(t)
                  /\ a \in DOMAIN bans
                  /\ bans[a].reason.kind # "AdminBan")
                 => IF now - bans[a].timestamp <= BanTime
                    THEN answer(tasks'[t].unban) = "false" /\ banlist' = banlist
                    ELSE tasks'[t].pc = "unban_expired" /\ tasks'[t].seen.reason = bans[a].reason
              /\ (/\ tasks[t].pc = "unban_expired"
                  /\ Stepped(t)
                  /\ tasks[t].seen.reason.kind # "AdminBan")
                 => /\ a \notin DOMAIN banlist'[a.shard]
                    /\ answer(tasks'[t].unban) = "true"]_vars

\* try_unban met a ban, not by an administrator, exactly ban_time old,
\* answered false and the address is still banned.
BanKeptAtBanTime ==
    \E t \in Tasks :
        /\ tasks[t].unban = "banned"
        /\ tasks[t].seen.reason.kind \notin {"AdminBan", "None"}
        /\ tasks[t].seen.age = BanTime
        /\ is_banned(tasks[t].address)
        /\ ~every_replica_banned(tasks[t].address.shard)

\* C4: with not every replica banned, try_unban on a replica under
\* AdminBan(d) holds the age of the ban against d and not against ban_time:
\* it answers false and leaves the banlist as it is while
\* now - timestamp <= d, and once now - timestamp > d removes the entry and
\* answers true.
AdminBanDuration ==
    [][\A t \in Tasks :
          LET a == tasks[t].address
              bans == banlist[a.shard]
          IN  /\ (/\ tasks[t].pc = "check_ban_time"
                  /\ Stepped(t)
                  /\ a \in DOMAIN bans
                  /\ bans[a].reason.kind = "AdminBan")
                 => IF now - bans[a].timestamp <= bans[a].reason.duration
                    THEN answer(tasks'[t].unban) = "false" /\ banlist' = banlist
                    ELSE tasks'[t].pc = "unban_expired" /\ tasks'[t].seen.reason = bans[a].reason
              /\ (/\ tasks[t].pc = "unban_expired"
                  /\ Stepped(t)
                  /\ tasks[t].seen.reason.kind = "AdminBan")
                 => /\ a \notin DOMAIN banlist'[a.shard]
                    /\ answer(tasks'[t].unban) = "true"]_vars

\* try_unban met an AdminBan(d) with d above ban_time, older than ban_time
\* and not older than d, and answered false.
AdminBanOutlivesBanTime ==
    \E t \in Tasks :
        /\ tasks[t].unban = "banned"
        /\ tasks[t].seen.reason.kind = "AdminBan"
        /\ tasks[t].seen.reason.duration > BanTime
        /\ tasks[t].seen.age > BanTime
        /\ tasks[t].seen.age <= tasks[t].seen.reason.duration
        /\ is_banned(tasks[t].address)

\* C6: in get(), when the candidate was not banned as it was popped and a
\* session was checked out, a health check is run if and only if the
\* session's last activity is more than healthcheck_delay old; within the
\* delay the session is returned with no health check.
HealthCheckGating ==
    \A t \in Tasks :
        (tasks[t].op = "get" /\ ~tasks[t].was_banned /\ tasks[t].checkout = "ok")
        => /\ (tasks[t].pc = "health_check" \/ tasks[t].health_check # "none")
              <=> tasks[t].elapsed > HealthcheckDelay
           /\ tasks[t].elapsed <= HealthcheckDelay
              => /\ tasks[t].pc = "done"
                 /\ tasks[t].result = "Ok"
                 /\ tasks[t].health_check = "none"

\* get() returned a session of a candidate that was not banned, exactly
\* healthcheck_delay after its last activity, with no health check.
ReturnedAtDelayUnchecked ==
    \E t \in Tasks :
        /\ tasks[t].op = "get"
        /\ ~tasks[t].was_banned
        /\ tasks[t].checkout = "ok"
        /\ tasks[t].elapsed = HealthcheckDelay
        /\ tasks[t].result = "Ok"
        /\ tasks[t].health_check = "none"

\* ------------------------------------------------------------------------
\* Properties of the in-flight query map
\* ------------------------------------------------------------------------

\* C8: the in-flight map never holds more than max_entries keys, an insert
\* that finds max_entries keys or more being rejected.
InFlightMapBounded == Cardinality(DOMAIN map) <= MaxEntries

\* C9: an insert that passes the statement filter and the size check
\* returns the normalized key and stores it with counter 0 when the key is
\* absent, and returns none and adds exactly 1 to the counter when the key
\* is present; so the counter of every key is the number of such inserts
\* that found the key present since the insert that returned it.
InsertOwnsOrCounts ==
    /\ [](\A k \in DOMAIN map : map[k] = duplicates[k])
    /\ [][\A q \in QueryData :
             (/\ last'.op = "insert"
              /\ last'.query_data = q
              /\ is_match(q.parse_query)
              /\ Cardinality(DOMAIN map) <= MaxEntries)
             => LET key == get_string(sanitize_query_string(q))
                IN  IF key \in DOMAIN map
                    THEN /\ last'.returned = NoKey
                         /\ map' = [map EXCEPT ![key] = @ + 1]
                    ELSE /\ last'.returned = key
                         /\ map' = MapInsert(map, key, 0)]_vars

\* A statement whose comment was stripped found its key present for the
\* second time: none was returned and the counter stands at 2.
DuplicateCountedTwice ==
    /\ last.op = "insert"
    /\ last.returned = NoKey
    /\ last.key \in DOMAIN map
    /\ last.key # last.query_data.parse_query
    /\ map[last.key] = 2
    /\ duplicates[last.key] = 2

\* C10: an insert whose statement does not match the SELECT ... FROM
\* pattern returns none and leaves the map, keys and counters, as it was.
UnmatchedInsertIgnored ==
    [][(last'.op = "insert" /\ ~is_match(last'.query_data.parse_query))
       => (last'.returned = NoKey /\ map' = map)]_vars

\* A statement that does not match was inserted while the map had room and
\* held a key: none was returned.
UnmatchedInsertSeen ==
    /\ last.op = "insert"
    /\ ~is_match(last.query_data.parse_query)
    /\ last.returned = NoKey
    /\ map # EmptyMap
    /\ Cardinality(DOMAIN map) < MaxEntries

\* ------------------------------------------------------------------------
\* Properties of pause and resume
\* ------------------------------------------------------------------------

\* C7: no wake-up is lost: a wait_paused call that read paused = true and
\* that a resume() has notified since the call registered its wait returns;
\* it does not stay blocked.
NoLostWakeup ==
    \A w \in Waiters :
        (waiters[w].pc \in {"await", "parked"} /\ waiters[w].resumed)
        ~> (waiters[w].pc = "done")

\* A wait_paused call read paused = true, resume() notified between its
\* registration and its first poll, and the call has returned.
ResumedBeforeAwaitReturned ==
    \E w \in Waiters :
        /\ waiters[w].pc = "done"
        /\ waiters[w].observed
        /\ waiters[w].resumed
        /\ waiters[w].polled_at > waiters[w].notified_at

\* ------------------------------------------------------------------------
\* Properties of the registry
\* ------------------------------------------------------------------------

\* The pool of the published mapping was taken over from the mapping before.
TakenOver(id) ==
    /\ id \in DOMAIN prev_POOLS
    /\ prev_POOLS[id].config_hash = POOLS[id].config_hash

\* C5: a pool whose config_hash is the one it had in the mapping the reload
\* replaced is that same instance, with the same endpoint pools, banlist,
\* paused flag and validated flag, so that what a client does through a
\* pool it got before the reload is seen through the published one; a pool
\* whose config_hash differs, or that is new, shares no allocation with any
\* pool of the replaced mapping nor with a pool a client still holds under
\* another config_hash.
HotReloadPreservesUnchanged ==
    \A id \in DOMAIN POOLS :
        IF TakenOver(id)
        THEN /\ POOLS[id] = prev_POOLS[id]
             /\ RefsOf(POOLS[id]) \subseteq DOMAIN heap
             /\ \A c \in Clients :
                    held[c] = prev_POOLS[id] => observed(held[c]) = observed(POOLS[id])
        ELSE /\ RefsOf(POOLS[id]) \cap RefsIn(prev_POOLS) = {}
             /\ \A c \in Clients :
                    held[c].config_hash # POOLS[id].config_hash
                        => RefsOf(POOLS[id]) \cap RefsOf(held[c]) = {}

\* A reload kept db1, banned and paused through the pool a client holds,
\* and replaced db2, whose hash changed.
ReloadKeptOneReplacedOther ==
    /\ reload.pc = "idle"
    /\ PoolIdentifier("db1", "u") \in DOMAIN POOLS
    /\ TakenOver(PoolIdentifier("db1", "u"))
    /\ \E c \in Clients :
        /\ held[c] = prev_POOLS[PoolIdentifier("db1", "u")]
        /\ observed(POOLS[PoolIdentifier("db1", "u")]).banned
        /\ observed(POOLS[PoolIdentifier("db1", "u")]).paused
    /\ PoolIdentifier("db2", "u") \in DOMAIN POOLS \cap DOMAIN prev_POOLS
    /\ ~TakenOver(PoolIdentifier("db2", "u"))
    /\ POOLS[PoolIdentifier("db2", "u")] # prev_POOLS[PoolIdentifier("db2", "u")]

\* ------------------------------------------------------------------------
\* Properties of get()
\* ------------------------------------------------------------------------

\* C11: when get(shard, role) returns Ok with a session and an address, the
\* address stands in addresses[shard] and has the role asked for, and the
\* session comes from the endpoint pool databases[shard][i] of the place i
\* where the address stands.
ReturnedSessionMatchesAddress ==
    \A t \in Tasks :
        (tasks[t].op = "get" /\ tasks[t].result = "Ok")
            => \E i \in Servers(tasks[t].shard) :
                  /\ addresses[tasks[t].shard][i] = tasks[t].address
                  /\ tasks[t].address.role = tasks[t].role
                  /\ tasks[t].conn = databases[tasks[t].shard][i]

\* get() returned the second replica, whose replica_number is not its place
\* in the shard, after a health check.
SecondReplicaReturned ==
    \E t \in Tasks :
        /\ tasks[t].op = "get"
        /\ tasks[t].result = "Ok"
        /\ tasks[t].role = "Replica"
        /\ tasks[t].address.address_index # tasks[t].address.replica_number
        /\ tasks[t].health_check = "passed"

\* C12: get() returns AllServersDown only once every candidate of the shard
\* and role has been gone through exactly once, each one skipped as banned
\* with try_unban answering false, or failing its checkout, or failing its
\* health check; no call goes through a candidate twice, so it ends after
\* at most one checkout per candidate, and the only error it returns is
\* AllServersDown.
AllServersDownAfterEveryCandidate ==
    \A t \in Tasks :
        tasks[t].op = "get" =>
            LET tk == tasks[t]
            IN  /\ \A i, j \in 1 .. Len(tk.tried) :
                      tk.tried[i].address = tk.tried[j].address => i = j
                /\ {tk.tried[i].address : i \in 1 .. Len(tk.tried)} \subseteq Candidates(tk.shard, tk.role)
                /\ tk.result \in {"none", "Ok", "AllServersDown"}
                /\ tk.result = "AllServersDown" =>
                      /\ {tk.tried[i].address : i \in 1 .. Len(tk.tried)} = Candidates(tk.shard, tk.role)
                      /\ \A i \in 1 .. Len(tk.tried) :
                            tk.tried[i].outcome \in {"skipped", "checkout_error", "health_check_failed"}

\* get() on the replicas returned AllServersDown after it skipped one
\* replica as banned and the other failed its health check.
AllServersDownSkippedAndFailed ==
    \E t \in Tasks :
        /\ tasks[t].op = "get"
        /\ tasks[t].result = "AllServersDown"
        /\ Len(tasks[t].tried) = 2
        /\ \E i \in 1 .. 2 : tasks[t].tried[i].outcome = "skipped"
        /\ \E i \in 1 .. 2 : tasks[t].tried[i].outcome = "health_check_failed"

\* The call of t is get(shard, Replica), running alone.
ReplicaCall(t) == tasks[t].op = "get" /\ tasks[t].role = "Replica"

\* C13: on a pool whose banlist is empty and whose backends all refuse
\* connections, get(shard, Replica) tries each replica of the shard exactly
\* once, returns AllServersDown, and leaves every replica of the shard
\* banned with FailedCheckout.
UnreachableReplicasAllBanned ==
    \A t \in Tasks :
        (/\ ReplicaCall(t)
         /\ tasks[t].pc = "done"
         /\ started[t] = EmptyMap
         /\ \A a \in AllAddresses : backends[a] = "unreachable")
        => LET tk == tasks[t]
               replicas == Candidates(tk.shard, "Replica")
           IN  /\ tk.result = "AllServersDown"
               /\ Len(tk.tried) = Cardinality(replicas)
               /\ {tk.tried[i].address : i \in 1 .. Len(tk.tried)} = replicas
               /\ \A i \in 1 .. Len(tk.tried) : tk.tried[i].outcome = "checkout_error"
               /\ DOMAIN banlist[tk.shard] = replicas
               /\ \A a \in replicas : banlist[tk.shard][a].reason = Reason("FailedCheckout")

\* get(shard, Replica) started on an empty banlist with every backend
\* refusing connections and has returned AllServersDown.
OutageReturnedAllServersDown ==
    \E t \in Tasks :
        /\ ReplicaCall(t)
        /\ tasks[t].pc = "done"
        /\ started[t] = EmptyMap
        /\ \A a \in AllAddresses : backends[a] = "unreachable"
        /\ tasks[t].result = "AllServersDown"
        /\ Len(tasks[t].tried) = 2

\* Every replica of the shard was banned, by a ban that had not run out,
\* when the call of t started.
StartedAllBanned(t) ==
    /\ ReplicaCall(t)
    /\ DOMAIN started[t] = Candidates(tasks[t].shard, "Replica")
    /\ \A a \in DOMAIN started[t] : ~exceeded_ban_time(started[t][a], now)

\* The addresses the call has banned on its way.
FailedSoFar(t) ==
    {tasks[t].tried[i].address :
        i \in {j \in 1 .. Len(tasks[t].tried) :
                  tasks[t].tried[j].outcome \in {"checkout_error", "health_check_failed"}}}

\* C14: when every replica of the shard is banned, with bans that have not
\* run out, as get(shard, Replica) starts, the call clears the shard's
\* banlist, so that at its return only the replicas it banned again are
\* banned, and the replica it returns has passed a health check forced in
\* this call, also when the first replica failed and the other was tried.
AllBannedReturnsForcedChecked ==
    \A t \in Tasks :
        (StartedAllBanned(t) /\ tasks[t].result = "Ok")
            => /\ DOMAIN banlist[tasks[t].shard] = FailedSoFar(t)
               /\ tasks[t].force_healthcheck
               /\ tasks[t].health_check = "passed"

\* C15: when every replica of the shard is banned as get(shard, Replica)
\* starts and one of them takes connections and passes its health check,
\* the call, running alone, returns Ok and not AllServersDown, whatever the
\* order of the candidates.
AllBannedStillServes ==
    \A t \in Tasks :
        (/\ ReplicaCall(t)
         /\ tasks[t].pc = "done"
         /\ DOMAIN started[t] = Candidates(tasks[t].shard, "Replica")
         /\ \E a \in Candidates(tasks[t].shard, "Replica") : backends[a] = "healthy")
        => tasks[t].result = "Ok"

\* Every replica was banned, unexpired, at the start; the first one tried
\* refused the connection and the call returned the other, healthy one.
AllBannedSecondServed ==
    \E t \in Tasks :
        /\ StartedAllBanned(t)
        /\ tasks[t].pc = "done"
        /\ tasks[t].result = "Ok"
        /\ Len(tasks[t].tried) = 2
        /\ tasks[t].tried[1].outcome = "checkout_error"
        /\ backends[tasks[t].address] = "healthy"

\* C16: after any sequence of reloads, those that keep some pools and build
\* others included, no two pools of the published mapping have an address,
\* mirror or not, with the same numeric id.
AddressIdsDistinct ==
    \A id1, id2 \in DOMAIN POOLS :
        id1 # id2 => address_ids(POOLS[id1]) \cap address_ids(POOLS[id2]) = {}

\* The mapping holds one pool for each pool and user of the configuration,
\* built for the hash the configuration gives the pool.
Complete(pools, configuration) ==
    /\ DOMAIN pools = {PoolIdentifier(p, u) :
                          p \in {q \in PoolNames : configuration[q] # 0}, u \in Users}
    /\ \A id \in DOMAIN pools : pools[id].config_hash = configuration[id.db]

\* C17: the registry is replaced in one publication. The published mapping
\* changes only at the end of a reload, from the whole mapping of before to
\* the whole mapping of the configuration the reload read; get_pool and
\* get_all_pools read the published mapping, never the one being built;
\* and a pool a client got before the reload stays the same value, its
\* allocations alive.
RegistryPublishedAtOnce ==
    /\ [](/\ get_all_pools = POOLS
          /\ \A c \in Clients : RefsOf(held[c]) \subseteq DOMAIN heap)
    /\ [][/\ POOLS' # POOLS =>
                /\ reload.pc = "pools"
                /\ reload.todo = {}
                /\ Complete(POOLS', reload.config)
          /\ \A c \in Clients :
                held'[c] # held[c] =>
                    /\ reload' = reload
                    /\ \E p \in PoolNames, u \in Users :
                          held'[c] = IF PoolIdentifier(p, u) \in DOMAIN POOLS
                                     THEN POOLS[PoolIdentifier(p, u)] ELSE NoPool]_vars

\* A reload has rebuilt a pool and not yet published it, another pool is
\* still to come, and a client holds the published pool the reload is
\* about to replace.
ReaderHoldsPoolDuringReload ==
    /\ reload.pc = "pools"
    /\ reload.todo # {}
    /\ \E c \in Clients, id \in DOMAIN reload.new_pools :
        /\ id \in DOMAIN POOLS
        /\ held[c] = POOLS[id]
        /\ reload.new_pools[id] # POOLS[id]

\* ------------------------------------------------------------------------
\* Properties of the validation
\* ------------------------------------------------------------------------

\* C18: the validated flag only goes from false to true: once validated()
\* has answered true it answers true in every later state, whatever
\* validate, ban, unban, pause and resume calls follow.
ValidatedStaysTrue == [][validated => validated']_vars

\* The pool was validated, then paused and a replica banned, and a later
\* validate() whose tasks all failed has ended.
ValidatedSurvivesFailedValidate ==
    /\ validated
    /\ paused
    /\ \E s \in Shards : banlist[s] # EmptyMap
    /\ \E v \in Validators :
        /\ validation[v].pc = "done"
        /\ \A e \in Endpoints : validation[v].futures[e] = "failed"

\* C19: validate() spawns one task for each server of each shard, waits
\* for all of them, and returns Ok exactly when one of its tasks acquired a
\* session; when none did it returns AllServersDown and validated is false.
ValidateOkIffSessionAcquired ==
    \A v \in Validators :
        validation[v].pc = "done" =>
            LET acquired == \E e \in Endpoints : validation[v].futures[e] = "acquired"
            IN  /\ \A e \in Endpoints : validation[v].futures[e] \in {"acquired", "failed"}
                /\ validation[v].result = "Ok" <=> acquired
                /\ ~acquired => (validation[v].result = "AllServersDown" /\ ~validated)

\* ------------------------------------------------------------------------
\* Properties of the topology
\* ------------------------------------------------------------------------

\* C20: the pool from_config built has as many shards in databases, in
\* addresses and in banlist as settings.shards says, and in every shard as
\* many endpoint pools as addresses; get, ban, unban and try_unban leave
\* these shapes as they are.
TopologyShapeKept ==
    /\ DOMAIN databases = 0 .. (settings_shards - 1)
    /\ DOMAIN addresses = 0 .. (settings_shards - 1)
    /\ DOMAIN banlist = 0 .. (settings_shards - 1)
    /\ \A s \in DOMAIN databases : DOMAIN databases[s] = DOMAIN addresses[s]
    /\ \A s \in DOMAIN banlist : DOMAIN banlist[s] \subseteq {addresses[s][i] : i \in DOMAIN addresses[s]}

\* get() found every replica banned, cleared the shard's banlist, and
\* banned the replica again when it failed the forced health check.
ClearedAndBannedAgain ==
    \E t \in Tasks :
        /\ tasks[t].op = "get"
        /\ tasks[t].unban = "all_banned"
        /\ tasks[t].health_check = "failed"
        /\ tasks[t].address \in DOMAIN banlist[tasks[t].shard]

\* C21: in get(), a popped candidate that was banned and for which
\* try_unban answered true gets a health check once a session is checked
\* out, however recent the session's last activity, and is returned only
\* after that health check passed in this call; a candidate for which
\* try_unban answered false is not checked out, and the steps of try_unban
\* that led to the answer left the banlist as it was.
UnbannedCandidateForcedChecked ==
    /\ [](\A t \in Tasks :
            (tasks[t].op = "get" /\ tasks[t].was_banned) =>
                /\ (answer(tasks[t].unban) = "true" /\ tasks[t].checkout = "ok")
                      => tasks[t].pc = "health_check" \/ tasks[t].health_check # "none"
                /\ (answer(tasks[t].unban) = "true" /\ tasks[t].result = "Ok")
                      => tasks[t].health_check = "passed"
                /\ answer(tasks[t].unban) = "false"
                      => /\ tasks[t].checkout = "none"
                         /\ tasks[t].health_check = "none"
                         /\ tasks[t].conn = NoConn
                         /\ tasks[t].result # "Ok")
    /\ [][\A t \in Tasks :
            (tasks[t].op = "get" /\ Stepped(t)) =>
                /\ tasks[t].pc \in {"try_unban", "check_ban_time"} => banlist' = banlist
                /\ (answer(tasks'[t].unban) = "false" /\ answer(tasks[t].unban) # "false")
                      => /\ tasks[t].pc = "check_ban_time"
                         /\ tasks'[t].pc = "pop"
                         /\ tasks'[t].address = tasks[t].address]_vars

\* get() skipped a banned replica, found the other one banned as well,
\* unbanned it, checked out a session used this very millisecond, ran the
\* health check and returned the session.
SkippedOneForcedOther ==
    \E t \in Tasks :
        /\ tasks[t].op = "get"
        /\ Len(tasks[t].tried) = 2
        /\ tasks[t].tried[1].outcome = "skipped"
        /\ tasks[t].was_banned
        /\ answer(tasks[t].unban) = "true"
        /\ tasks[t].elapsed = 0
        /\ tasks[t].health_check = "passed"
        /\ tasks[t].result = "Ok"

\* C22: when the health check of get() fails, by an error of the query or
\* by not answering within healthcheck_timeout, the session is marked bad
\* and is not returned, get() goes on to the next candidate, and a replica
\* is banned with FailedHealthCheck, the rest of the banlist staying as it
\* was; for a Primary the session is marked bad and the banlist is left as
\* it was.
FailedHealthCheckBans ==
    [][\A t \in Tasks :
          (/\ tasks[t].pc = "health_check"
           /\ Stepped(t)
           /\ tasks'[t].health_check \in {"failed", "timed_out"})
          => LET a == tasks[t].address
             IN  /\ tasks'[t].bad
                 /\ tasks'[t].conn = NoConn
                 /\ tasks'[t].result = "none"
                 /\ tasks'[t].pc = "pop"
                 /\ tasks'[t].candidates = tasks[t].candidates
                 /\ IF a.role = "Primary"
                    THEN banlist' = banlist
                    ELSE /\ a \in DOMAIN banlist'[a.shard]
                         /\ banlist'[a.shard][a].reason = Reason("FailedHealthCheck")
                         /\ \A s \in Shards, b \in AllAddresses \ {a} :
                               /\ b \in DOMAIN banlist'[s] <=> b \in DOMAIN banlist[s]
                               /\ b \in DOMAIN banlist[s] => banlist'[s][b] = banlist[s][b]]_vars

\* The health check of a replica timed out with the other replica still to
\* be tried: the session is bad and gone and the replica is banned with
\* FailedHealthCheck.
HealthCheckTimedOutBanned ==
    \E t \in Tasks :
        /\ tasks[t].op = "get"
        /\ tasks[t].pc = "pop"
        /\ tasks[t].health_check = "timed_out"
        /\ tasks[t].bad
        /\ tasks[t].conn = NoConn
        /\ Len(tasks[t].candidates) = 1
        /\ tasks[t].address.role = "Replica"
        /\ is_banned(tasks[t].address)
        /\ banlist[tasks[t].shard][tasks[t].address].reason = Reason("FailedHealthCheck")

\* ------------------------------------------------------------------------
\* Properties of the load balancing
\* ------------------------------------------------------------------------

\* connections minus idle_connections, 0 when idle exceeds connections.
Busy(a) ==
    LET state == states[databases[a.shard][a.address_index]]
    IN  IF state.idle_connections > state.connections THEN 0
        ELSE state.connections - state.idle_connections

\* C23: under LeastOutstandingConnections the candidates of a get() call
\* stand, as the call has ordered them, so that they are popped in
\* non-decreasing order of busy count as read at that moment, the first one
\* popped being the least busy of all the candidates of the shard and role;
\* every later step of the call takes the candidates from the end of that
\* list, one at a time. Under Random any candidate can be the first one
\* popped, whatever the busy counts.
LeastBusyFirst ==
    /\ [](Random =>
            \A s \in Shards, r \in Role :
                \A a \in Candidates(s, r) :
                    \E shuffled \in Shuffles(Candidates(s, r)) :
                        sort_by(shuffled)[Len(shuffled)] = a)
    /\ [][\A t \in Tasks :
            LET c == tasks'[t].candidates
                n == Len(tasks[t].candidates)
            IN  /\ (/\ tasks[t].pc = "idle"
                    /\ tasks'[t].op = "get"
                    /\ load_balancing_mode = "LeastOutstandingConnections")
                   => /\ {c[i] : i \in 1 .. Len(c)} = Candidates(tasks'[t].shard, tasks'[t].role)
                      /\ Len(c) = Cardinality(Candidates(tasks'[t].shard, tasks'[t].role))
                      /\ \A i, j \in 1 .. Len(c) : i < j => Busy(c[i]) >= Busy(c[j])
                      /\ \A a \in Candidates(tasks'[t].shard, tasks'[t].role) :
                            Busy(c[Len(c)]) <= Busy(a)
                /\ (tasks[t].op = "get" /\ tasks'[t].op = "get" /\ Stepped(t))
                   => IF tasks[t].pc = "pop" /\ n > 0
                      THEN /\ tasks'[t].address = tasks[t].candidates[n]
                           /\ c = SubSeq(tasks[t].candidates, 1, n - 1)
                      ELSE c = tasks[t].candidates]_vars

\* Under LeastOutstandingConnections get() has popped first a replica that
\* bb8 reports with more idle connections than connections, busy count 0,
\* and kept for later the replica with a busy connection.
LeastBusyPoppedFirst ==
    \E t \in Tasks :
        /\ load_balancing_mode = "LeastOutstandingConnections"
        /\ tasks[t].op = "get"
        /\ tasks[t].role = "Replica"
        /\ tasks[t].pc = "checkout"
        /\ tasks[t].tried = <<>>
        /\ Len(tasks[t].candidates) = 1
        /\ pool_state(tasks[t].address.shard, tasks[t].address.address_index).idle_connections
              > pool_state(tasks[t].address.shard, tasks[t].address.address_index).connections
        /\ Busy(tasks[t].address) = 0
        /\ Busy(tasks[t].candidates[1]) = 1

\* ------------------------------------------------------------------------
\* Properties of the client's state
\* ------------------------------------------------------------------------

\* C24: get() has marked the client waiting before its first candidate is
\* through, and when it has returned the client is active exactly when it
\* returned Ok and idle exactly when it returned AllServersDown.
ClientStateOnReturn ==
    \A t \in Tasks :
        tasks[t].op = "get" =>
            /\ (tasks[t].tried = <<>> /\ tasks[t].pc # "done")
                  => tasks[t].client_stats = "waiting"
            /\ tasks[t].pc = "done" =>
                  /\ tasks[t].result \in {"Ok", "AllServersDown"}
                  /\ tasks[t].client_stats = "active" <=> tasks[t].result = "Ok"
                  /\ tasks[t].client_stats = "idle" <=> tasks[t].result = "AllServersDown"

\* get() returned Ok, the client active, after the checkout of its first
\* candidate had failed.
ActiveAfterCheckoutError ==
    \E t \in Tasks :
        /\ tasks[t].op = "get"
        /\ tasks[t].pc = "done"
        /\ tasks[t].result = "Ok"
        /\ tasks[t].client_stats = "active"
        /\ Len(tasks[t].tried) = 2
        /\ tasks[t].tried[1].outcome = "checkout_error"

\* C25: during a get() call the client is idle only at the end, when no
\* candidate succeeded and the call returns AllServersDown: while the call
\* has candidates left or is at work on one, and when it returns Ok, the
\* client has not been marked idle.
ClientIdleOnlyAtEnd ==
    \A t \in Tasks :
        (tasks[t].op = "get" /\ tasks[t].client_stats = "idle")
            => (tasks[t].pc = "done" /\ tasks[t].result = "AllServersDown")

\* ------------------------------------------------------------------------
\* Properties of the eviction
\* ------------------------------------------------------------------------

\* C26: evict_from_cache removes the key and nothing else, so that the next
\* admitted insert of the same statement returns the key again and stores
\* it with counter 0; evicting a key the map does not hold leaves the map
\* as it was; and the line about the hits is logged exactly when the
\* counter removed was above 0 and log_normalized_queries is set.
EvictRemovesAndLogs ==
    [][/\ last'.op = "evict" =>
            LET key == last'.key
            IN  /\ map' = MapRemove(map, key)
                /\ key \notin DOMAIN map => map' = map
                /\ last'.logged # "none"
                      <=> (key \in DOMAIN map /\ map[key] > 0 /\ log_normalized_queries)
       /\ (/\ last.op = "evict"
           /\ last'.op = "insert"
           /\ last'.key = last.key
           /\ is_match(last'.query_data.parse_query)
           /\ Cardinality(DOMAIN map) <= MaxEntries)
          => /\ last'.returned = last.key
             /\ map'[last.key] = 0]_vars

\* ------------------------------------------------------------------------
\* Properties of a failed reload
\* ------------------------------------------------------------------------

\* C27: when from_config fails while it builds an endpoint pool, the call
\* returns the error and the registry is what it was before the call: the
\* published mapping is the same, nothing of the mapping under construction
\* is published, get_pool and get_all_pools return the instances they
\* returned before, and the allocations of those instances are alive.
FailedReloadKeepsRegistry ==
    /\ [](reload.result = "Err" =>
            /\ reload.pc = "returned"
            /\ reload.new_pools = EmptyMap
            /\ RefsIn(POOLS) \subseteq DOMAIN heap)
    /\ [][/\ (reload.pc = "pools" /\ reload'.pc # "pools" /\ reload.todo # {})
             => reload'.result = "Err"
          /\ (reload'.result = "Err" /\ reload.result # "Err")
             => /\ POOLS' = POOLS
                /\ get_all_pools' = get_all_pools
                /\ \A p \in PoolNames, u \in Users : get_pool(p, u)' = get_pool(p, u)
                /\ \A r \in RefsIn(POOLS) : r \in DOMAIN heap' /\ heap'[r] = heap[r]
          /\ (reload.pc = "returned" /\ reload'.pc # "returned")
             => POOLS' = POOLS]_vars

\* Both pools are published and the configuration changed both; a reload
\* built one of them anew, failed on the other and returned the error.
ReloadFailedOnSecondPool ==
    /\ reload.pc = "returned"
    /\ reload.result = "Err"
    /\ Cardinality(reload.todo) = 1
    /\ DOMAIN POOLS = {PoolIdentifier(p, u) : p \in PoolNames, u \in Users}
    /\ \A id \in DOMAIN POOLS :
          /\ config[id.db] # 0
          /\ POOLS[id].config_hash # config[id.db]

\* ------------------------------------------------------------------------
\* Properties of try_unban among other callers
\* ------------------------------------------------------------------------

\* C28: with get, try_unban and ban calls running side by side, a write of
\* try_unban takes an entry out of the banlist only if, as it is taken out,
\* every replica of the shard is banned or the entry is older than its
\* threshold; a ban another caller recorded after try_unban read the
\* banlist is not removed by the write that follows.
TryUnbanRemovesOnlyExpired ==
    [][\A t \in Tasks :
          (Stepped(t) /\ tasks[t].pc \in {"unban_all", "unban_expired"}) =>
              \A s \in Shards :
                  \A a \in DOMAIN banlist[s] :
                      a \notin DOMAIN banlist'[s] =>
                          \/ every_replica_banned(s)
                          \/ exceeded_ban_time(banlist[s][a], now)]_vars

\* ------------------------------------------------------------------------
\* Properties of a call that runs alone
\* ------------------------------------------------------------------------

\* C29: with nothing else going on, a replica that a get() call banned,
\* after its checkout or its health check failed, is in the banlist when
\* that call returns.
BannedByCallStaysBanned ==
    \A t \in Tasks :
        (ReplicaCall(t) /\ tasks[t].pc = "done")
            => FailedSoFar(t) \subseteq DOMAIN banlist[tasks[t].shard]

\* C30: for one state of the pool (the banlist and the ages of its bans,
\* what each backend does to a checkout and to a health check, the age of
\* the session each endpoint pool hands out) and nothing else going on,
\* get(shard, role) returns Ok for every order of the candidates or
\* AllServersDown for every order.
OrderDoesNotDecide ==
    Quiet =>
        \A s \in Shards, r \in Role :
            \A last_activity \in [Candidates(s, r) -> 0 .. MaxElapsed] :
                \A p, q \in Shuffles(Candidates(s, r)) :
                    get_returns(sort_by(p), banlist, last_activity)
                        = get_returns(sort_by(q), banlist, last_activity)

\* ------------------------------------------------------------------------
\* Properties of a ban on a banned replica
\* ------------------------------------------------------------------------

\* C34: ban() on a replica that is already banned replaces the entry of
\* that address: the shard's banlist keeps the same addresses, one entry
\* each, the other entries are as they were, and the entry of the address
\* carries the reason of this ban and the time this ban read; with a
\* reason other than AdminBan, whatever the reason it replaced, try_unban
\* holds the new entry against ban_time.
BanReplacesEntry ==
    [][\A a \in AllAddresses, r \in CallerReasons :
          (is_banned(a) /\ ban(a, r)) =>
              LET before == banlist[a.shard]
                  after == banlist'[a.shard]
              IN  /\ DOMAIN after = DOMAIN before
                  /\ \A b \in DOMAIN before \ {a} : after[b] = before[b]
                  /\ after[a].reason = r
                  /\ after[a].timestamp \in {now - 1, now}
                  /\ r.kind # "AdminBan" =>
                         \A n \in 0 .. MaxTime :
                             exceeded_ban_time(after[a], n) <=> (n - after[a].timestamp > BanTime)]_vars

\* A try_unban call found the AdminBan of a replica expired and, before
\* it removed anything, a ban for another reason was written over it.
AdminBanReplaced ==
    \E t \in Tasks :
        /\ tasks[t].pc = "unban_expired"
        /\ tasks[t].seen.reason.kind = "AdminBan"
        /\ is_banned(tasks[t].address)
        /\ banlist[tasks[t].address.shard][tasks[t].address].reason.kind # "AdminBan"
        /\ banlist[tasks[t].address.shard][tasks[t].address].timestamp = now

\* ------------------------------------------------------------------------
\* Properties of inserts side by side
\* ------------------------------------------------------------------------

\* C33: of the calls under way together that insert one statement the
\* filter lets through, into a map that did not hold its key when one of
\* them began, at most one is handed the key; and among those that have
\* passed the size check and returned, exactly one was handed the key, every
\* other one was handed none, and the counter stored under the key is the
\* number of those handed none.
OneOwnerAmongInserters ==
    \A k \in Keys :
        LET together == {i \in Inserters : /\ inserters[i].pc # "idle"
                                           /\ ~ignored(inserters[i].query_data)
                                           /\ key_of(i) = k}
            passed == {i \in together : inserters[i].pc = "returned" /\ ~inserters[i].skipped}
            owners == {i \in passed : inserters[i].returned = k}
        IN  (\E i \in together : ~inserters[i].held) =>
                /\ \A i \in together : inserters[i].returned \in {k, NoKey}
                /\ Cardinality({i \in together : inserters[i].returned = k}) <= 1
                /\ passed # {} =>
                       /\ Cardinality(owners) = 1
                       /\ \A i \in passed \ owners : inserters[i].returned = NoKey
                       /\ k \in DOMAIN map
                       /\ map[k] = Cardinality(passed \ owners)

\* Three callers sent one statement, under two spellings, and each began
\* while the map did not hold its key: one was handed the key, two were
\* handed none, and the counter stands at 2.
ThreeInsertedOneOwns ==
    \E k \in Keys :
        /\ \A i \in Inserters :
              /\ inserters[i].pc = "returned"
              /\ ~ignored(inserters[i].query_data)
              /\ key_of(i) = k
              /\ ~inserters[i].held
              /\ ~inserters[i].skipped
        /\ \E i, j \in Inserters : inserters[i].query_data # inserters[j].query_data
        /\ Cardinality({i \in Inserters : inserters[i].returned = k}) = 1
        /\ Cardinality({i \in Inserters : inserters[i].returned = NoKey}) = 2
        /\ map[k] = 2

\* ------------------------------------------------------------------------
\* Properties of the server parameters
\* ------------------------------------------------------------------------

\* C32: however the validation tasks interleave, whenever validated is
\* true original_server_parameters hold parameters that a task took from
\* the session of an endpoint, never the value the pool was built with;
\* and once a validate() call in which a task got a session has completed,
\* a reader, who gets the parameters when no task holds the write guard,
\* gets the ones written by the task that was the last to end of those
\* that wrote.
ValidatedParametersWritten ==
    /\ validated =>
           /\ original_server_parameters.value # NewServerParameters
           /\ \E e \in Endpoints : original_server_parameters.value = server_parameters(e)
    /\ \A v \in Validators :
           (/\ validation[v].pc = "done"
            /\ \E e \in Endpoints : validation[v].futures[e] = "acquired"
            /\ original_server_parameters.guard = NoGuard)
               => /\ last_finished \in Endpoints
                  /\ original_server_parameters.value = server_parameters(last_finished)

\* A validate() call has completed with two tasks that wrote and one that
\* got no session, while a task of the other call holds the write guard
\* with validated already set.
ValidatedWithTwoWriters ==
    \E v, w \in Validators :
        /\ v # w
        /\ validation[v].pc = "done"
        /\ validation[v].result = "Ok"
        /\ Cardinality({e \in Endpoints : validation[v].futures[e] = "acquired"}) = 2
        /\ Cardinality({e \in Endpoints : validation[v].futures[e] = "failed"}) = 1
        /\ validation[v].futures[last_finished] = "acquired"
        /\ \E e \in Endpoints :
              /\ validation[w].futures[e] = "written"
              /\ original_server_parameters.guard = <<w, e>>
              /\ e # last_finished
        /\ validated

\* ------------------------------------------------------------------------
\* Properties of the pool from_config builds
\* ------------------------------------------------------------------------

\* C31: in every pool from_config builds, the address stored at
\* addresses[s][i] has shard = s and address_index = i; databases and
\* banlist, which get, ban, unban, is_banned and try_unban index by
\* address.shard and address.address_index, have an entry there, the
\* endpoint pool found is the one made for that address, and the entries
\* of the banlist of a shard are addresses of that shard.
AddressesStandWhereTheyPoint ==
    /\ \A s \in DOMAIN built.addresses : \A i \in DOMAIN built.addresses[s] :
           LET address == built.addresses[s][i]
           IN  /\ address.shard = s
               /\ address.address_index = i
               /\ address.shard \in DOMAIN built.databases
               /\ address.address_index \in DOMAIN built.databases[address.shard]
               /\ built.databases[address.shard][address.address_index].address = address
               /\ address.shard \in DOMAIN built.banlist
    /\ \A s \in DOMAIN built.banlist : \A address \in DOMAIN built.banlist[s] :
           \E i \in DOMAIN built.addresses[s] : built.addresses[s][i] = address

\* A pool of two shards has been built, the second with a primary and two
\* servers in all, and the replica that stands second in the second shard
\* is in the banlist of that shard.
SecondShardReplicaBanned ==
    /\ DOMAIN built.addresses = {0, 1}
    /\ DOMAIN built.addresses[1] = {0, 1}
    /\ built.addresses[1][0].role = "Primary"
    /\ built.addresses[1][1].role = "Replica"
    /\ DOMAIN built.banlist[1] = {built.addresses[1][1]}
    /\ DOMAIN built.banlist[0] = {}

====
